---- MODULE Spec2Model ----
(***************************************************************************)
(* A model of the fluxion actor runtime.                                   *)
(*                                                                         *)
(* The repository holds two generations of the runtime:                    *)
(*   - fluxion/src/fluxion.rs : the registry facade `Fluxion` (add,        *)
(*     add_named, kill, get_local, get_actor_id, shutdown) on top of a     *)
(*     Slacktor instance, whose storage is a slab (fluxion.rs:230 "the     *)
(*     underlying slab"), plus a BTreeMap of names;                        *)
(*   - src/system/mod.rs and src/actor/supervisor.rs : the `System` keyed  *)
(*     by string ids, with one supervisor task per actor, a message        *)
(*     channel per supervisor and a broadcast shutdown channel.            *)
(* Spec is the state machine of the registry facade, SpecSys the state     *)
(* machine of System and its supervisors.                                  *)
(***************************************************************************)
EXTENDS Integers, Sequences, FiniteSets, TLC

\* ------------------------------------------------------------------ bounds
\* Number of tasks calling into the registry concurrently.
NumTasks == 2
\* Number of actor values ever handed to add / add_named.
MaxActors == 2

\* Number of supervisors System::add_actor ever spawns.
MaxSups == 1
\* Number of messages ever sent through local handles.
MaxMsgs == 2
\* The n of a retry(n) error policy.
MaxRetry == 1

\* Slots of a supervisor's message channel: mpsc::channel(64).
MailboxCap == 64
\* foreign sends issued
MaxForeign == 3
\* envelopes sent to the one mailbox whose capacity is exercised
MaxEnv == 66
\* longest identifier text parsed
MaxLen == 4
MaxSpawn == 2
MaxHops == 2
MaxRelay == 2
\* `mpsc::channel(64)` of the foreign channel
ForeignCap == 64

Tasks == 1..NumTasks
Actors == 1..MaxActors
NoActor == 0
NoId == -1
Names == {"n1", "n2"}
NoName == "none"
\* The largest u64 that converts to usize; the ids above it stand for the
\* values id.try_into() rejects.
UsizeMax == MaxActors
\* Ids a caller may pass to kill: every key the slab can hold, one that is
\* never allocated, and one that does not fit usize.
KillIds == 0..(UsizeMax + 1)
\* The ids get_local can answer for.
SlabIds == 0..UsizeMax

\* System (src/system/mod.rs): string actor ids, supervisors, senders.
Ids == {"a"}
Sups == 1..MaxSups
NoSup == 0
Msgs == 1..MaxMsgs
NoMsg == 0
PolicyKinds == {"ignore", "fail", "retry_ignore", "retry_fail"}
\* SupervisorErrorPolicy, the hooks modelled: initialize and message_handler.
Policies == [init : {"fail"}, mh : PolicyKinds]
\* Mutant of DefaultPolicy: a failing message handler ends the supervisor.
DefaultPolicy_HandlerFails ==
    [init |-> "fail", mh |-> "fail", deinit |-> "fail", closed |-> "fail",
     foreign |-> "ignore"]

\* SupervisorErrorPolicy::default : initialize, message_handler,
\* deinitialize, message_channel_closed, unexpected_foreign.
DefaultPolicy ==
    [init |-> "fail", mh |-> "ignore", deinit |-> "fail", closed |-> "fail",
     foreign |-> "ignore"]
\* Every policy of the initialize hook, with the default of the handler.
InitPolicies == [init : PolicyKinds, mh : {"ignore"}]

VARIABLES
    \* --- Fluxion (fluxion/src/fluxion.rs) ---
    entries,     \* the slab's entry vector: <<[occ, v]>>, key k at index k+1
    slabNext,    \* the slab's head of the vacant list (Slab::vacant_key)
    actor_ids,   \* Fluxion::actor_ids : name -> id (NoId when unbound)
    pc,          \* per task: where it is inside add / add_named / kill
    loc,         \* per task: the locals of the call in progress
    lastRes,     \* per actor value: "ok" | "err" once its add has returned
    nextActor,   \* the next fresh actor value
    initState,   \* per actor value: "none" | "running" | "ok" | "failed"
    \* --- history (observations of the registry, never read by it) ---
    returned,    \* ids returned by spawn, in the order of registration
    killedIds,   \* ids removed by kill
    reuse,       \* ids that spawn handed out again after a kill removed them
    nameHist,    \* per name: what the last add_named that bound it installed
    goneAt,      \* the next actor value when shutdown last returned (0: never)
    \* --- System and its supervisors (src/system, src/actor/supervisor.rs) ---
    sysActors,   \* System::actors : string id -> supervisor (NoSup when absent)
    nextSup,     \* the next supervisor to spawn
    spc,         \* per supervisor: position of its task in run / cleanup
    policy,      \* per supervisor: its SupervisorErrorPolicy
    mailbox,     \* per supervisor: the queue of its message channel
    cur,         \* per supervisor: the message its handler is working on
    attempts,    \* per supervisor: re-runs done by the policy in progress
    sig,         \* per supervisor: shutdown broadcasts its receiver has not seen
    sdPc,        \* position of the task inside System::shutdown
    nextMsg,     \* the next message to send
    mTarget,     \* per message: the supervisor it was sent to
    mInv,        \* per message: how often the handler was invoked for it
    mResp,       \* per message: what its sender observes
    \* --- history ---
    sdMark,      \* number of messages sent before the last shutdown broadcast
    preempted,   \* messages sent before a broadcast and left queued at the break
    cleared,     \* supervisors whose entry a shutdown in progress has cleared
    stopped,     \* supervisors cleared by a shutdown that has returned
    lateHandled, \* supervisors whose handler ran after that return
    exitBy,      \* per supervisor: why it left its loop
    \* --- foreign channel (system/mod.rs, message/foreign.rs) ---
    frx,         \* where the foreign receiver is: "held", "taken", "closed"
    fq,          \* the queue of the foreign channel
    fmsg,        \* per foreign send: its position, result and fate
    fNext,       \* the next foreign send
    \* --- one mailbox under load (supervisor.rs, handle.rs) ---
    bq,          \* the queue of the message channel
    bNext,       \* the next envelope to send
    bTaken,      \* number of envelopes the supervisor has received
    bwait,       \* per sender: the envelope it waits to send, or NoEnv
    bWaited,     \* envelopes whose sender had to wait for a slot
    \* --- identifier codec (fluxion/src/identifiers.rs) ---
    cdc,         \* the last codec call: its input and what it returned
    \* --- the registry lock (fluxion/src/fluxion.rs) ---
    lockW,       \* the task holding the slab's RwLock for writing, or NoTask
    lockR,       \* the tasks holding it for reading
    lpc,         \* per task: position inside add / kill / shutdown / get_local
    hook,        \* per task: the user code its operation is running or awaiting
    \* --- the hooks of one supervisor task (src/actor/supervisor.rs) ---
    hpc,         \* per supervisor: where its task stands (call, await, select ..)
    hnow,        \* per supervisor: the hook its task is at, or NoHook
    running,     \* per supervisor: the hooks begun and not yet returned
    hq,          \* per supervisor: what waits in its channels, by kind
    hSig,        \* per supervisor: a shutdown broadcast waits in its receiver
    \* --- concurrent add_actor (src/system/mod.rs) ---
    aLock,       \* the task holding `actors` for writing, or NoTask
    apc,         \* per task: position inside add_actor / shutdown
    aId,         \* per task: the id its add_actor was called with
    aRes,        \* per task: what its last add_actor returned
    aReg,        \* the actors map: id -> supervisor, or NoSup
    aSup,        \* per spawned supervisor: its id and the state of its task
    aNext,       \* the number of the next supervisor to be built
    aOk,         \* per id: the add_actor calls that succeeded since the map
                 \* was last cleared
    \* --- get_foreign on clones of one system (src/system/mod.rs) ---
    gLock,       \* the task holding the mutex of foreign_reciever, or NoTask
    gpc,         \* per task: position inside get_foreign
    gGot,        \* per task: what its std::mem::take has read so far
    gRes,        \* per task: what its last get_foreign returned
    gRx,         \* the content of foreign_reciever: "Some" or "None"
    gCan,        \* per task: the last answer of can_send_foreign
    gSome,       \* the get_foreign calls that returned Some
    \* --- relay_foreign (src/system/mod.rs) ---
    rq,          \* the foreign channel: the messages put on it, oldest first
    rLocal,      \* the messages given to local actors, oldest first
    rLast,       \* the message the last relay_foreign was called with
    rRes,        \* what the last relay_foreign returned
    rN,          \* the number of relay_foreign calls made
    \* --- one supervisor receiving local and foreign messages ---
    uq,          \* its message channel: the ids of the messages queued
    uKind,       \* per message id: what was sent ("-" when not sent yet)
    uN,          \* the number of messages sent
    upc,         \* where the task stands: loop, convert, handle, out
    ucur,        \* the message in hand, or 0
    uAtt,        \* the attempts the policy has counted for the message in hand
    uPol,        \* the supervisor's unexpected_foreign policy
    uHandled     \* the ids passed to the message handler, in order

regVars == <<entries, slabNext, actor_ids, pc, loc, lastRes, nextActor,
             initState, returned, killedIds, reuse, nameHist, goneAt>>

sysVars == <<sysActors, nextSup, spc, policy, mailbox, cur, attempts, sig,
             sdPc, nextMsg, mTarget, mInv, mResp,
             sdMark, preempted, cleared, stopped, lateHandled, exitBy>>

forVars == <<frx, fq, fmsg, fNext>>

mbVars == <<bq, bNext, bTaken, bwait, bWaited>>

lkVars == <<lockW, lockR, lpc, hook>>

hkVars == <<hpc, hnow, running, hq, hSig>>

adVars == <<aLock, apc, aId, aRes, aReg, aSup, aNext, aOk>>

gfVars == <<gLock, gpc, gGot, gRes, gRx, gCan, gSome>>

rlVars == <<rq, rLocal, rLast, rRes, rN>>

ufVars == <<uq, uKind, uN, upc, ucur, uAtt, uPol, uHandled>>

vars == <<regVars, sysVars, forVars, mbVars, cdc, lkVars, hkVars, adVars, gfVars, rlVars,
          ufVars>>

\* ------------------------------------------------------------------ slab
\* Slacktor keeps its actors in a slab; Fluxion reaches it through
\* next_id / spawn / get / kill / shrink / shutdown.

Occupied(a) == [occ |-> TRUE, v |-> a]
Vacant(n) == [occ |-> FALSE, v |-> n]

\* Slacktor::next_id : the key the next insert will use.
SlabVacantKey == slabNext

\* Slacktor::spawn : insert at the vacant key, return the new entry vector.
SlabInsertEntries(a) ==
    IF slabNext = Len(entries)
        THEN Append(entries, Occupied(a))
        ELSE [entries EXCEPT ![slabNext + 1] = Occupied(a)]

\* Slacktor::spawn : the head of the vacant list after the insert.
SlabInsertNext ==
    IF slabNext = Len(entries)
        THEN slabNext + 1
        ELSE entries[slabNext + 1].v

\* Slacktor::get : the actor stored under id, NoActor when there is none.
SlabGet(id) ==
    IF id >= 0 /\ id < Len(entries) /\ entries[id + 1].occ
        THEN entries[id + 1].v
        ELSE NoActor

\* Slacktor::kill : the entry becomes vacant and heads the vacant list.
SlabRemoveEntries(id) ==
    IF SlabGet(id) # NoActor
        THEN [entries EXCEPT ![id + 1] = Vacant(slabNext)]
        ELSE entries

SlabRemoveNext(id) == IF SlabGet(id) # NoActor THEN id ELSE slabNext

\* Slacktor::shrink : drop the vacant entries after the last occupied one.
RECURSIVE PopVacantTail(_)
PopVacantTail(es) ==
    IF Len(es) > 0 /\ ~es[Len(es)].occ
        THEN PopVacantTail(SubSeq(es, 1, Len(es) - 1))
        ELSE es

\* ... and, when some were dropped, rebuild the vacant list from the back so
\* that the lowest vacant key heads it.  RelinkFrom(es, i, nxt) walks keys
\* i-1 .. 0 and yields <<entries, next>>.
RECURSIVE RelinkFrom(_, _, _)
RelinkFrom(es, i, nxt) ==
    IF i = 0 THEN <<es, nxt>>
    ELSE IF es[i].occ
        THEN RelinkFrom(es, i - 1, nxt)
        ELSE RelinkFrom([es EXCEPT ![i] = Vacant(nxt)], i - 1, i - 1)

SlabShrink ==
    LET popped == PopVacantTail(entries)
    IN IF Len(popped) = Len(entries)
           THEN <<entries, slabNext>>
           ELSE RelinkFrom(popped, Len(popped), Len(popped))

\* The actors currently stored.
SlabActors == {entries[i].v : i \in {j \in 1..Len(entries) : entries[j].occ}}

\* ------------------------------------------------------------------ lookups
\* Fluxion::get_actor_id
get_actor_id(name) == actor_ids[name]

\* Fluxion::get_local : the actor the returned handle sends to.
get_local(id) == SlabGet(id)

\* The actor type an entry was added with (`add::<A>`): two types are enough
\* for a mismatch; odd actors are of the first, even ones of the second.
Types == {"A", "B"}
TypeOf(a) == IF a % 2 = 1 THEN "A" ELSE "B"

\* Mutant of get_local_as: the entry is returned without the downcast.
get_local_as_Untyped(ty, id) == get_local(id)

\* Fluxion::get_local::<A> : `get::<ActorWrapper<A, D>>` yields the entry only
\* when it downcasts to the requested type.
get_local_as(ty, id) ==
    IF get_local(id) # NoActor /\ TypeOf(get_local(id)) = ty
        THEN get_local(id)
        ELSE NoActor

\* Identifier : Local(id), LocalNamed(name), and the foreign variants that
\* carry the same id or name together with another system.
LocalIdentifiers ==
    [kind : {"Local"}, id : KillIds] \cup [kind : {"LocalNamed"}, name : Names]
ForeignIdentifiers ==
    [kind : {"Foreign"}, id : KillIds] \cup [kind : {"ForeignNamed"}, name : Names]
Identifiers == LocalIdentifiers \cup ForeignIdentifiers

\* What a delegate can answer for a foreign identifier: nothing, or a
\* sender of its own, which is no local actor. get reads the delegate at
\* the one identifier it is asked for, so the delegates that answer every
\* identifier alike cover its cases.
RemoteRef == NoId
Delegates == {[f \in ForeignIdentifiers |-> r] : r \in {NoActor, RemoteRef}}
NoopDelegate == [f \in ForeignIdentifiers |-> NoActor]

\* Mutant of get: a foreign identifier the delegate does not resolve falls
\* back to the local entry of the same id or name.
get_LocalFallback(del, ty, ident) ==
    CASE ident.kind = "Local" -> get_local_as(ty, ident.id)
      [] ident.kind = "LocalNamed" ->
            IF get_actor_id(ident.name) = NoId
                THEN NoActor
                ELSE get_local_as(ty, get_actor_id(ident.name))
      [] ident.kind = "Foreign" ->
            IF del[ident] # NoActor THEN del[ident] ELSE get_local_as(ty, ident.id)
      [] OTHER ->
            IF del[ident] # NoActor \/ get_actor_id(ident.name) = NoId
                THEN del[ident]
                ELSE get_local_as(ty, get_actor_id(ident.name))

\* Fluxion::get : the match on the identifier variant.
get(del, ty, ident) ==
    CASE ident.kind = "Local" -> get_local_as(ty, ident.id)
      [] ident.kind = "LocalNamed" ->
            IF get_actor_id(ident.name) = NoId
                THEN NoActor
                ELSE get_local_as(ty, get_actor_id(ident.name))
      [] OTHER -> del[ident]

\* ------------------------------------------------------------------ Init
NoHist == [set |-> FALSE, id |-> NoId, actor |-> NoActor, old |-> NoId,
           oldActor |-> NoActor, intact |-> FALSE]
NoLoc == [actor |-> NoActor, name |-> NoName, id |-> NoId, clean |-> FALSE]
NoRes == "none"

InitReg ==
    /\ entries = <<>>
    /\ slabNext = 0
    /\ actor_ids = [n \in Names |-> NoId]
    /\ pc = [t \in Tasks |-> "idle"]
    /\ loc = [t \in Tasks |-> NoLoc]
    /\ lastRes = [a \in Actors |-> NoRes]
    /\ nextActor = 1
    /\ initState = [a \in Actors |-> "none"]
    /\ returned = <<>>
    /\ killedIds = {}
    /\ reuse = {}
    /\ nameHist = [n \in Names |-> NoHist]
    /\ goneAt = 0

\* system::new : no actors, an empty shutdown broadcast channel.
InitSys ==
    /\ sysActors = [i \in Ids |-> NoSup]
    /\ nextSup = 1
    /\ spc = [s \in Sups |-> "none"]
    /\ policy = [s \in Sups |-> DefaultPolicy]
    /\ mailbox = [s \in Sups |-> <<>>]
    /\ cur = [s \in Sups |-> NoMsg]
    /\ attempts = [s \in Sups |-> 0]
    /\ sig = [s \in Sups |-> 0]
    /\ sdPc = "idle"
    /\ nextMsg = 1
    /\ mTarget = [m \in Msgs |-> NoSup]
    /\ mInv = [m \in Msgs |-> 0]
    /\ mResp = [m \in Msgs |-> "unsent"]
    /\ sdMark = 0
    /\ preempted = {}
    /\ cleared = {}
    /\ stopped = {}
    /\ lateHandled = {}
    /\ exitBy = [s \in Sups |-> "none"]

\* system::new : the receiver of the foreign channel is stored in the system.
FMsgs == 1..MaxForeign
NoFMsg == [st |-> "none", resp |-> FALSE, res |-> "none", fate |-> "none",
           sends |-> 0, err |-> "-", caller |-> "none", reply |-> "none"]
\* What the listener does with the foreign responder of a message: it sends
\* an M::Response, drops the responder, or sends a value of another type.
Replies == {"response", "dropped", "other_type"}

InitFor ==
    /\ frx = "held"
    /\ fq = <<>>
    /\ fmsg = [m \in FMsgs |-> NoFMsg]
    /\ fNext = 1

\* ActorSupervisor::new : the message channel is empty.
Envs == 1..MaxEnv
NoEnv == 0

InitMb ==
    /\ bq = <<>>
    /\ bNext = 1
    /\ bTaken = 0
    /\ bwait = [c \in Tasks |-> NoEnv]
    /\ bWaited = {}

\* No codec call has been made.
NoCall == [op |-> "none"]
InitCodec == cdc = NoCall

\* Fluxion::new : the lock is free.
NoTask == 0

InitLock ==
    /\ lockW = NoTask
    /\ lockR = {}
    /\ lpc = [t \in Tasks |-> "idle"]
    /\ hook = [t \in Tasks |-> "none"]

\* The hooks of the Actor trait and the kinds of input the main loop
\* selects on besides the shutdown broadcast.
Hooks == {"initialize", "message", "federated_message", "notified",
          "deinitialize", "cleanup"}
Kinds == {"message", "federated_message", "notified"}
NoHook == "-"

\* Before add_actor: no task, nothing queued.
InitHk ==
    /\ hpc = [s \in Sups |-> "none"]
    /\ hnow = [s \in Sups |-> NoHook]
    /\ running = [s \in Sups |-> {}]
    /\ hq = [s \in Sups |-> [k \in Kinds |-> 0]]
    /\ hSig = [s \in Sups |-> FALSE]

\* system::new : an empty actors map, nothing spawned.
AddIds == {"a", "b"}
Spawned == 1..MaxSpawn
NoAdd == "-"
TaskLives(n) == aSup[n].st \in {"run", "handling", "signalled", "ending"}

InitAdd ==
    /\ aLock = NoTask
    /\ apc = [t \in Tasks |-> "idle"]
    /\ aId = [t \in Tasks |-> NoAdd]
    /\ aRes = [t \in Tasks |-> "none"]
    /\ aReg = [i \in AddIds |-> NoSup]
    /\ aSup = [n \in Spawned |-> [id |-> NoAdd, st |-> "none", sent |-> FALSE]]
    /\ aNext = 1
    /\ aOk = [i \in AddIds |-> 0]

\* What a supervisor's message channel carries: a local message of type M,
\* a foreign message whose payload is an M, and a foreign message whose
\* payload is of another type.
MsgKinds == {"local", "foreign", "mistyped"}

\* Before the supervisor is built: no policy, no channel.
InitUf ==
    /\ uq = <<>>
    /\ uKind = [m \in 1..MaxMsgs |-> "-"]
    /\ uN = 0
    /\ upc = "none"
    /\ ucur = 0
    /\ uAtt = 0
    /\ uPol = "-"
    /\ uHandled = <<>>

\* Actor paths: a sequence of system names, then the name of the actor.
ThisSystem == "this"
Systems == {"this", "other"}
RECURSIVE SystemSeqs(_)
SystemSeqs(n) ==
    IF n = 0 THEN {<<>>}
    ELSE SystemSeqs(n - 1) \cup
         {Append(q, x) : q \in {r \in SystemSeqs(n - 1) : Len(r) = n - 1}, x \in Systems}
ActorNames == {"x", "y"}
Paths == [systems : SystemSeqs(MaxHops), actor : ActorNames]
\* The actors registered on this system.
LocalActors == {"x"}
NoRelay == [systems |-> <<>>, actor |-> "-"]

\* system::new : nothing on the foreign channel, nothing relayed.
InitRelay ==
    /\ rq = <<>>
    /\ rLocal = <<>>
    /\ rLast = NoRelay
    /\ rRes = "none"
    /\ rN = 0

\* system::new : foreign_reciever holds Some(receiver), the mutex is free.
InitGf ==
    /\ gLock = NoTask
    /\ gpc = [t \in Tasks |-> "idle"]
    /\ gGot = [t \in Tasks |-> "none"]
    /\ gRes = [t \in Tasks |-> "none"]
    /\ gRx = "Some"
    /\ gCan = [t \in Tasks |-> "none"]
    /\ gSome = 0

Init == InitReg /\ InitSys /\ InitFor /\ InitMb /\ InitCodec /\ InitLock /\ InitHk /\ InitAdd /\ InitGf /\ InitRelay
        /\ InitUf

\* ------------------------------------------------------------------ add
\* Mutant of AddBegin: the actor is registered while initialize still runs.
AddBegin_RegisterFirst(t, name) ==
    /\ pc[t] = "idle"
    /\ nextActor <= MaxActors
    /\ pc' = [pc EXCEPT ![t] = "add_lock"]
    /\ loc' = [loc EXCEPT ![t] = [NoLoc EXCEPT !.actor = nextActor, !.name = name]]
    /\ initState' = [initState EXCEPT ![nextActor] = "running"]
    /\ nextActor' = nextActor + 1
    /\ UNCHANGED <<entries, slabNext, actor_ids, lastRes, returned, killedIds,
                   reuse, nameHist,
                   goneAt>>

\* Fluxion::add / add_named, up to the start of actor.initialize().
AddBegin(t, name) ==
    /\ pc[t] = "idle"
    /\ nextActor <= MaxActors
    /\ pc' = [pc EXCEPT ![t] = "initializing"]
    /\ loc' = [loc EXCEPT ![t] = [NoLoc EXCEPT !.actor = nextActor, !.name = name]]
    /\ initState' = [initState EXCEPT ![nextActor] = "running"]
    /\ nextActor' = nextActor + 1
    /\ UNCHANGED <<entries, slabNext, actor_ids, lastRes, returned, killedIds,
                   reuse, nameHist,
                   goneAt>>

\* Mutant of InitializeDone: the `?` is missing, a failed initialize goes on
\* to registration.
InitializeDone_NoReturn(t, ok) ==
    /\ pc[t] = "initializing"
    /\ initState' = [initState EXCEPT ![loc[t].actor] = IF ok THEN "ok" ELSE "failed"]
    /\ pc' = [pc EXCEPT ![t] = "add_lock"]
    /\ UNCHANGED <<loc, lastRes>>
    /\ UNCHANGED <<entries, slabNext, actor_ids, nextActor, returned,
                   killedIds, reuse, nameHist,
                   goneAt>>

\* actor.initialize().await? : on failure the call returns the error.
InitializeDone(t, ok) ==
    /\ pc[t] = "initializing"
    /\ initState' = [initState EXCEPT ![loc[t].actor] = IF ok THEN "ok" ELSE "failed"]
    /\ IF ok
         THEN /\ pc' = [pc EXCEPT ![t] = "add_lock"]
              /\ UNCHANGED <<loc, lastRes>>
         ELSE /\ pc' = [pc EXCEPT ![t] = "idle"]
              /\ lastRes' = [lastRes EXCEPT ![loc[t].actor] = "err"]
              /\ loc' = [loc EXCEPT ![t] = NoLoc]
    /\ UNCHANGED <<entries, slabNext, actor_ids, nextActor, returned,
                   killedIds, reuse, nameHist,
                   goneAt>>

\* Mutant of AddSpawn: once a shutdown has returned, add refuses (the system
\* is gone) instead of spawning.
AddSpawn_SystemGone(t) ==
    /\ pc[t] = "add_lock"
    /\ IF goneAt # 0
         THEN /\ pc' = [pc EXCEPT ![t] = "idle"]
              /\ lastRes' = [lastRes EXCEPT ![loc[t].actor] = "err"]
              /\ loc' = [loc EXCEPT ![t] = NoLoc]
              /\ UNCHANGED <<entries, slabNext, returned, reuse>>
         ELSE LET id == SlabVacantKey
              IN /\ entries' = SlabInsertEntries(loc[t].actor)
                 /\ slabNext' = SlabInsertNext
                 /\ returned' = Append(returned, id)
                 /\ reuse' = IF id \in killedIds THEN reuse \cup {id} ELSE reuse
                 /\ IF loc[t].name = NoName
                      THEN /\ pc' = [pc EXCEPT ![t] = "idle"]
                           /\ lastRes' = [lastRes EXCEPT ![loc[t].actor] = "ok"]
                           /\ loc' = [loc EXCEPT ![t] = NoLoc]
                      ELSE /\ pc' = [pc EXCEPT ![t] = "name_lock"]
                           /\ loc' = [loc EXCEPT ![t].id = id, ![t].clean = TRUE]
                           /\ UNCHANGED lastRes
    /\ UNCHANGED <<actor_ids, nextActor, initState, killedIds, nameHist, goneAt>>

\* Under the slacktor write lock: next_id, spawn; add returns Ok(id).
AddSpawn(t) ==
    /\ pc[t] = "add_lock"
    /\ LET id == SlabVacantKey
       IN /\ entries' = SlabInsertEntries(loc[t].actor)
          /\ slabNext' = SlabInsertNext
          /\ returned' = Append(returned, id)
          /\ reuse' = IF id \in killedIds THEN reuse \cup {id} ELSE reuse
          /\ IF loc[t].name = NoName
               THEN /\ pc' = [pc EXCEPT ![t] = "idle"]
                    /\ lastRes' = [lastRes EXCEPT ![loc[t].actor] = "ok"]
                    /\ loc' = [loc EXCEPT ![t] = NoLoc]
               ELSE /\ pc' = [pc EXCEPT ![t] = "name_lock"]
                    /\ loc' = [loc EXCEPT ![t].id = id, ![t].clean = TRUE]
                    /\ UNCHANGED lastRes
    /\ UNCHANGED <<actor_ids, nextActor, initState, killedIds, nameHist,
                   goneAt>>

\* Mutant of AddNamedInsert: the name is bound to next_id() read after the
\* spawn instead of the id spawn returned.
AddNamedInsert_NextId(t) ==
    /\ pc[t] = "name_lock"
    /\ LET n == loc[t].name
           old == actor_ids[n]
       IN /\ actor_ids' = [actor_ids EXCEPT ![n] = SlabVacantKey]
          /\ nameHist' = [nameHist EXCEPT ![n] =
                [set |-> TRUE, id |-> loc[t].id, actor |-> loc[t].actor,
                 old |-> old, oldActor |-> SlabGet(old),
                 intact |-> loc[t].clean]]
          /\ lastRes' = [lastRes EXCEPT ![loc[t].actor] = "ok"]
    /\ pc' = [pc EXCEPT ![t] = "idle"]
    /\ loc' = [loc EXCEPT ![t] = NoLoc]
    /\ UNCHANGED <<entries, slabNext, nextActor, initState, returned,
                   killedIds, reuse,
                   goneAt>>

\* Mutant of AddNamedInsert: overwriting a name kills the displaced actor.
AddNamedInsert_KillDisplaced(t) ==
    /\ pc[t] = "name_lock"
    /\ LET n == loc[t].name
           old == actor_ids[n]
       IN /\ actor_ids' = [actor_ids EXCEPT ![n] = loc[t].id]
          /\ nameHist' = [nameHist EXCEPT ![n] =
                [set |-> TRUE, id |-> loc[t].id, actor |-> loc[t].actor,
                 old |-> old, oldActor |-> SlabGet(old),
                 intact |-> loc[t].clean]]
          /\ lastRes' = [lastRes EXCEPT ![loc[t].actor] = "ok"]
          /\ entries' = IF old # loc[t].id THEN SlabRemoveEntries(old) ELSE entries
          /\ slabNext' = IF old # loc[t].id THEN SlabRemoveNext(old) ELSE slabNext
    /\ pc' = [pc EXCEPT ![t] = "idle"]
    /\ loc' = [loc EXCEPT ![t] = NoLoc]
    /\ UNCHANGED <<nextActor, initState, returned, killedIds, reuse,
                   goneAt>>

\* Under the actor_ids write lock: actor_ids.insert(name, id); Ok(id).
AddNamedInsert(t) ==
    /\ pc[t] = "name_lock"
    /\ LET n == loc[t].name
           old == actor_ids[n]
       IN /\ actor_ids' = [actor_ids EXCEPT ![n] = loc[t].id]
          /\ nameHist' = [nameHist EXCEPT ![n] =
                [set |-> TRUE, id |-> loc[t].id, actor |-> loc[t].actor,
                 old |-> old, oldActor |-> SlabGet(old),
                 intact |-> loc[t].clean]]
          /\ lastRes' = [lastRes EXCEPT ![loc[t].actor] = "ok"]
    /\ pc' = [pc EXCEPT ![t] = "idle"]
    /\ loc' = [loc EXCEPT ![t] = NoLoc]
    /\ UNCHANGED <<entries, slabNext, nextActor, initState, returned,
                   killedIds, reuse, goneAt>>

\* ------------------------------------------------------------------ kill
\* A removal ends every round trip in progress or recorded.
Disturb(h) == [n \in Names |-> [h[n] EXCEPT !.intact = FALSE]]
DisturbLoc(l) == [t \in Tasks |-> [l[t] EXCEPT !.clean = FALSE]]

\* Mutant of KillRemoveFits: the slab is cut off at the killed id, the
\* actors stored after it go with it.
KillRemoveFits_Truncate(t, id) ==
    /\ entries' = IF SlabGet(id) # NoActor THEN SubSeq(entries, 1, id) ELSE entries
    /\ slabNext' = SlabRemoveNext(id)
    /\ killedIds' = IF SlabGet(id) # NoActor THEN killedIds \cup {id} ELSE killedIds
    /\ nameHist' = IF SlabGet(id) # NoActor THEN Disturb(nameHist) ELSE nameHist
    /\ loc' = IF SlabGet(id) # NoActor THEN DisturbLoc(loc) ELSE loc
    /\ pc' = [pc EXCEPT ![t] = "kill_shrink"]

\* slacktor.write().kill(id) for an id that fits usize.
KillRemoveFits(t, id) ==
    /\ entries' = SlabRemoveEntries(id)
    /\ slabNext' = SlabRemoveNext(id)
    /\ killedIds' = IF SlabGet(id) # NoActor THEN killedIds \cup {id} ELSE killedIds
    /\ nameHist' = IF SlabGet(id) # NoActor THEN Disturb(nameHist) ELSE nameHist
    /\ loc' = IF SlabGet(id) # NoActor THEN DisturbLoc(loc) ELSE loc
    /\ pc' = [pc EXCEPT ![t] = "kill_shrink"]

\* Mutant of KillRemove: kill also unbinds the names that point at the id.
KillRemove_Unbind(t, id) ==
    /\ pc[t] = "idle"
    /\ id <= UsizeMax
    /\ entries' = SlabRemoveEntries(id)
    /\ slabNext' = SlabRemoveNext(id)
    /\ actor_ids' = [n \in Names |-> IF actor_ids[n] = id THEN NoId ELSE actor_ids[n]]
    /\ killedIds' = IF SlabGet(id) # NoActor THEN killedIds \cup {id} ELSE killedIds
    /\ nameHist' = IF SlabGet(id) # NoActor THEN Disturb(nameHist) ELSE nameHist
    /\ loc' = IF SlabGet(id) # NoActor THEN DisturbLoc(loc) ELSE loc
    /\ pc' = [pc EXCEPT ![t] = "kill_shrink"]
    /\ UNCHANGED <<lastRes, nextActor, initState, returned, reuse, goneAt>>

\* Fluxion::kill: an id that does not fit usize returns at once; otherwise
\* the first statement, slacktor.write().kill(id).
KillRemove(t, id) ==
    /\ pc[t] = "idle"
    /\ IF id > UsizeMax
         THEN UNCHANGED <<entries, slabNext, killedIds, nameHist, loc, pc>>
         ELSE KillRemoveFits(t, id)
    /\ UNCHANGED <<actor_ids, lastRes, nextActor, initState, returned, reuse,
                   goneAt>>

\* Fluxion::kill, second statement: slacktor.write().shrink().
KillShrink(t) ==
    /\ pc[t] = "kill_shrink"
    /\ entries' = SlabShrink[1]
    /\ slabNext' = SlabShrink[2]
    /\ pc' = [pc EXCEPT ![t] = "idle"]
    /\ UNCHANGED <<actor_ids, loc, lastRes, nextActor, initState, returned,
                   killedIds, reuse, nameHist,
                   goneAt>>

\* ------------------------------------------------------------------ shutdown
\* Fluxion::shutdown : slacktor.write().shutdown() empties the slab; the name
\* map is not touched.
FluxionShutdown(t) ==
    /\ pc[t] = "idle"
    /\ entries # <<>>
    /\ entries' = <<>>
    /\ slabNext' = 0
    /\ nameHist' = Disturb(nameHist)
    /\ loc' = DisturbLoc(loc)
    /\ goneAt' = nextActor
    /\ UNCHANGED <<actor_ids, pc, lastRes, nextActor, initState, returned,
                   killedIds, reuse>>

\* ------------------------------------------------------------------ Next
NextReg ==
    \/ \E t \in Tasks, n \in Names \cup {NoName} :
          AddBegin(t, n) /\ UNCHANGED <<sysVars, forVars, mbVars, cdc, lkVars, hkVars, adVars, gfVars, rlVars, ufVars>>
    \/ \E t \in Tasks, ok \in BOOLEAN :
          InitializeDone(t, ok) /\ UNCHANGED <<sysVars, forVars, mbVars, cdc, lkVars, hkVars, adVars, gfVars, rlVars, ufVars>>
    \/ \E t \in Tasks : AddSpawn(t) /\ UNCHANGED <<sysVars, forVars, mbVars, cdc, lkVars, hkVars, adVars, gfVars, rlVars, ufVars>>
    \/ \E t \in Tasks : AddNamedInsert(t) /\ UNCHANGED <<sysVars, forVars, mbVars, cdc, lkVars, hkVars, adVars, gfVars, rlVars, ufVars>>
    \/ \E t \in Tasks, id \in KillIds :
          KillRemove(t, id) /\ UNCHANGED <<sysVars, forVars, mbVars, cdc, lkVars, hkVars, adVars, gfVars, rlVars, ufVars>>
    \/ \E t \in Tasks : KillShrink(t) /\ UNCHANGED <<sysVars, forVars, mbVars, cdc, lkVars, hkVars, adVars, gfVars, rlVars, ufVars>>
    \/ \E t \in Tasks : FluxionShutdown(t) /\ UNCHANGED <<sysVars, forVars, mbVars, cdc, lkVars, hkVars, adVars, gfVars, rlVars, ufVars>>

Spec == Init /\ [][NextReg]_vars

\* ================================================================== System
\* handle_policy! : what the error policy of a hook decides after the hook
\* failed and `att` re-runs were already made. A retry policy runs the hook
\* again ("again") up to MaxRetry times and then falls through to the
\* command after it; "ignore" lets the supervisor continue, "fail" ends it.
HandlePolicy(kind, att) ==
    CASE kind = "retry_ignore" -> IF att < MaxRetry THEN "again" ELSE "ignore"
      [] kind = "retry_fail" -> IF att < MaxRetry THEN "again" ELSE "fail"
      [] OTHER -> kind

\* The supervisors that exist and whose shutdown receiver is alive.
Alive == {s \in Sups : spc[s] \notin {"none", "dropped"}}

\* System::add_actor : under the write lock, reject an id that is present,
\* else build the supervisor (which subscribes to the shutdown broadcast),
\* spawn its task and insert the handle.
AddActor(id, pol) ==
    /\ sysActors[id] = NoSup
    /\ nextSup <= MaxSups
    /\ sysActors' = [sysActors EXCEPT ![id] = nextSup]
    /\ spc' = [spc EXCEPT ![nextSup] = "spawned"]
    /\ policy' = [policy EXCEPT ![nextSup] = pol]
    /\ sig' = [sig EXCEPT ![nextSup] = 0]
    /\ nextSup' = nextSup + 1
    /\ UNCHANGED <<mailbox, cur, attempts, sdPc, nextMsg, mTarget,
                   mInv, mResp, sdMark, preempted, cleared, stopped,
                   lateHandled, exitBy>>

\* Mutant of RunInitialize: an initialize that fails for good leaves through
\* the code after the loop, deinitialize included.
RunInitialize_DeinitOnFail(s, ok) ==
    /\ spc[s] = "spawned"
    /\ LET out == IF ok THEN "ok" ELSE HandlePolicy(policy[s].init, attempts[s])
       IN /\ spc' = [spc EXCEPT ![s] =
                CASE out = "again" -> "spawned"
                  [] out = "fail" -> "deinit"
                  [] OTHER -> "loop"]
          /\ attempts' = [attempts EXCEPT ![s] =
                IF out = "again" THEN attempts[s] + 1 ELSE 0]
          /\ exitBy' = [exitBy EXCEPT ![s] =
                IF out = "fail" THEN "initialize" ELSE exitBy[s]]
    /\ UNCHANGED <<sysActors, nextSup, policy, mailbox, cur, sig, sdPc,
                   nextMsg, mTarget, mInv, mResp,
                   sdMark, preempted, cleared, stopped, lateHandled>>

\* ActorSupervisor::run, actor.initialize() under the initialize policy.
RunInitialize(s, ok) ==
    /\ spc[s] = "spawned"
    /\ LET out == IF ok THEN "ok" ELSE HandlePolicy(policy[s].init, attempts[s])
       IN /\ spc' = [spc EXCEPT ![s] =
                CASE out = "again" -> "spawned"
                  [] out = "fail" -> "cleanup"
                  [] OTHER -> "loop"]
          /\ attempts' = [attempts EXCEPT ![s] =
                IF out = "again" THEN attempts[s] + 1 ELSE 0]
          /\ exitBy' = [exitBy EXCEPT ![s] =
                IF out = "fail" THEN "initialize" ELSE exitBy[s]]
    /\ UNCHANGED <<sysActors, nextSup, policy, mailbox, cur, sig, sdPc,
                   nextMsg, mTarget, mInv, mResp,
                   sdMark, preempted, cleared, stopped, lateHandled>>

\* The select! of the main loop, shutdown branch: a broadcast is waiting.
SelectShutdown(s) ==
    /\ spc[s] = "loop"
    /\ sig[s] > 0
    /\ sig' = [sig EXCEPT ![s] = sig[s] - 1]
    /\ spc' = [spc EXCEPT ![s] = "deinit"]
    /\ exitBy' = [exitBy EXCEPT ![s] = "shutdown"]
    /\ preempted' = preempted \cup
          {m \in Msgs : m <= sdMark /\ \E i \in 1..Len(mailbox[s]) : mailbox[s][i] = m}
    /\ UNCHANGED <<sysActors, nextSup, policy, mailbox, cur, attempts, sdPc,
                   nextMsg, mTarget, mInv, mResp,
                   sdMark, cleared, stopped, lateHandled>>

\* Mutant of RecvMessage: the supervisor receives while initialize is still
\* to run.
RecvMessage_BeforeInit(s) ==
    /\ spc[s] \in {"spawned", "loop"}
    /\ mailbox[s] # <<>>
    /\ cur' = [cur EXCEPT ![s] = Head(mailbox[s])]
    /\ mailbox' = [mailbox EXCEPT ![s] = Tail(mailbox[s])]
    /\ spc' = [spc EXCEPT ![s] = "handling"]
    /\ attempts' = [attempts EXCEPT ![s] = 0]
    /\ UNCHANGED <<sysActors, nextSup, policy, sig, sdPc, nextMsg,
                   mTarget, mInv, mResp, sdMark, preempted, cleared,
                   stopped, lateHandled, exitBy>>

\* Mutant of RecvMessage: the newest message is taken instead of the oldest.
RecvMessage_Newest(s) ==
    /\ spc[s] = "loop"
    /\ mailbox[s] # <<>>
    /\ cur' = [cur EXCEPT ![s] = mailbox[s][Len(mailbox[s])]]
    /\ mailbox' = [mailbox EXCEPT ![s] = SubSeq(mailbox[s], 1, Len(mailbox[s]) - 1)]
    /\ spc' = [spc EXCEPT ![s] = "handling"]
    /\ attempts' = [attempts EXCEPT ![s] = 0]
    /\ UNCHANGED <<sysActors, nextSup, policy, sig, sdPc, nextMsg,
                   mTarget, mInv, mResp, sdMark, preempted, cleared,
                   stopped, lateHandled, exitBy>>

\* Mutant of RecvMessage: the message is read but stays in the channel.
RecvMessage_Peek(s) ==
    /\ spc[s] = "loop"
    /\ mailbox[s] # <<>>
    /\ cur' = [cur EXCEPT ![s] = Head(mailbox[s])]
    /\ spc' = [spc EXCEPT ![s] = "handling"]
    /\ attempts' = [attempts EXCEPT ![s] = 0]
    /\ UNCHANGED <<sysActors, nextSup, policy, mailbox, sig, sdPc, nextMsg, mTarget, mInv, mResp, sdMark, preempted,
                   cleared, stopped, lateHandled, exitBy>>

\* The select! of the main loop, message branch: self.message.recv().
RecvMessage(s) ==
    /\ spc[s] = "loop"
    /\ mailbox[s] # <<>>
    /\ cur' = [cur EXCEPT ![s] = Head(mailbox[s])]
    /\ mailbox' = [mailbox EXCEPT ![s] = Tail(mailbox[s])]
    /\ spc' = [spc EXCEPT ![s] = "handling"]
    /\ attempts' = [attempts EXCEPT ![s] = 0]
    /\ UNCHANGED <<sysActors, nextSup, policy, sig, sdPc, nextMsg,
                   mTarget, mInv, mResp, sdMark, preempted, cleared,
                   stopped, lateHandled, exitBy>>

\* Mutant of HandleMessage: a handler failure that the policy does not let
\* pass is noted, and the supervisor selects again.
HandleMessage_FailGoesOn(s, ok) ==
    /\ spc[s] = "handling"
    /\ LET m == cur[s]
           out == IF ok THEN "ok" ELSE HandlePolicy(policy[s].mh, attempts[s])
       IN /\ mInv' = [mInv EXCEPT ![m] = mInv[m] + 1]
          /\ lateHandled' = IF s \in stopped THEN lateHandled \cup {s} ELSE lateHandled
          /\ mResp' = [mResp EXCEPT ![m] =
                CASE mResp[m] = "cancelled" -> "cancelled"
                  [] out = "ok" -> "ok"
                  [] out = "again" -> mResp[m]
                  [] OTHER -> "noresponse"]
          /\ spc' = [spc EXCEPT ![s] = IF out = "again" THEN "handling" ELSE "loop"]
          /\ cur' = [cur EXCEPT ![s] = IF out = "again" THEN m ELSE NoMsg]
          /\ attempts' = [attempts EXCEPT ![s] =
                IF out = "again" THEN attempts[s] + 1 ELSE 0]
          /\ exitBy' = [exitBy EXCEPT ![s] =
                IF out = "fail" THEN "handler" ELSE exitBy[s]]
    /\ UNCHANGED <<sysActors, nextSup, policy, mailbox, sig, sdPc, nextMsg, mTarget, sdMark, preempted, cleared,
                   stopped>>

\* Mutant of HandleMessage: a response that cannot be delivered because the
\* caller gave up ends the supervisor's loop.
HandleMessage_RespondFails(s, ok) ==
    /\ spc[s] = "handling"
    /\ LET m == cur[s]
           out == IF ok
                     THEN IF mResp[m] = "cancelled" THEN "fail" ELSE "ok"
                     ELSE HandlePolicy(policy[s].mh, attempts[s])
       IN /\ mInv' = [mInv EXCEPT ![m] = mInv[m] + 1]
          /\ lateHandled' = IF s \in stopped THEN lateHandled \cup {s} ELSE lateHandled
          /\ mResp' = [mResp EXCEPT ![m] =
                CASE mResp[m] = "cancelled" -> "cancelled"
                  [] out = "ok" -> "ok"
                  [] out = "again" -> mResp[m]
                  [] OTHER -> "noresponse"]
          /\ spc' = [spc EXCEPT ![s] =
                CASE out = "again" -> "handling"
                  [] out = "fail" -> "deinit"
                  [] OTHER -> "loop"]
          /\ cur' = [cur EXCEPT ![s] = IF out = "again" THEN m ELSE NoMsg]
          /\ attempts' = [attempts EXCEPT ![s] =
                IF out = "again" THEN attempts[s] + 1 ELSE 0]
          /\ exitBy' = [exitBy EXCEPT ![s] =
                IF out = "fail" THEN "handler" ELSE exitBy[s]]
    /\ UNCHANGED <<sysActors, nextSup, policy, mailbox, sig, sdPc, nextMsg, mTarget, sdMark, preempted, cleared,
                   stopped>>

\* One invocation of actor.message() under the message_handler policy, and
\* the response: sent when the handler succeeded, dropped otherwise; a
\* response whose caller gave up cannot be delivered (`let _ =
\* responder.send(res)`), which changes nothing else.
HandleMessage(s, ok) ==
    /\ spc[s] = "handling"
    /\ LET m == cur[s]
           out == IF ok THEN "ok" ELSE HandlePolicy(policy[s].mh, attempts[s])
       IN /\ mInv' = [mInv EXCEPT ![m] = mInv[m] + 1]
          /\ lateHandled' = IF s \in stopped THEN lateHandled \cup {s} ELSE lateHandled
          /\ mResp' = [mResp EXCEPT ![m] =
                CASE mResp[m] = "cancelled" -> "cancelled"
                  [] out = "ok" -> "ok"
                  [] out = "again" -> mResp[m]
                  [] OTHER -> "noresponse"]
          /\ spc' = [spc EXCEPT ![s] =
                CASE out = "again" -> "handling"
                  [] out = "fail" -> "deinit"
                  [] OTHER -> "loop"]
          /\ cur' = [cur EXCEPT ![s] = IF out = "again" THEN m ELSE NoMsg]
          /\ attempts' = [attempts EXCEPT ![s] =
                IF out = "again" THEN attempts[s] + 1 ELSE 0]
          /\ exitBy' = [exitBy EXCEPT ![s] =
                IF out = "fail" THEN "handler" ELSE exitBy[s]]
    /\ UNCHANGED <<sysActors, nextSup, policy, mailbox, sig, sdPc, nextMsg, mTarget, sdMark, preempted, cleared,
                   stopped>>

\* The handler succeeded for a foreign message but its response cannot be
\* serialized: `responder.send(bincode::serialize(&res).or(Err(..))?)`
\* returns from run with the error, past the code after the loop.
RespondFail(s) ==
    /\ spc[s] = "handling"
    /\ mInv' = [mInv EXCEPT ![cur[s]] = mInv[cur[s]] + 1]
    /\ lateHandled' = IF s \in stopped THEN lateHandled \cup {s} ELSE lateHandled
    /\ mResp' = [mResp EXCEPT ![cur[s]] =
          IF mResp[cur[s]] = "cancelled" THEN "cancelled" ELSE "noresponse"]
    /\ spc' = [spc EXCEPT ![s] = "cleanup"]
    /\ cur' = [cur EXCEPT ![s] = NoMsg]
    /\ attempts' = [attempts EXCEPT ![s] = 0]
    /\ exitBy' = [exitBy EXCEPT ![s] = "respond"]
    /\ UNCHANGED <<sysActors, nextSup, policy, mailbox, sig, sdPc, nextMsg,
                   mTarget, sdMark, preempted, cleared, stopped>>

\* The select! of the main loop, message branch, when every handle of the
\* actor has been dropped (the map no longer holds one, the callers dropped
\* theirs) and nothing is queued: recv() yields None, which is
\* MessageChannelClosed under the message_channel_closed policy.
ChannelClosed(s) ==
    /\ spc[s] = "loop"
    /\ mailbox[s] = <<>>
    /\ \A i \in Ids : sysActors[i] # s
    /\ LET out == HandlePolicy(policy[s].closed, attempts[s])
       IN /\ spc' = [spc EXCEPT ![s] = IF out = "fail" THEN "deinit" ELSE "loop"]
          /\ attempts' = [attempts EXCEPT ![s] =
                IF out = "again" THEN attempts[s] + 1 ELSE 0]
    /\ exitBy' = [exitBy EXCEPT ![s] = "closed"]
    /\ UNCHANGED <<sysActors, nextSup, policy, mailbox, cur, sig, sdPc, nextMsg,
                   mTarget, mInv, mResp, sdMark, preempted, cleared, stopped,
                   lateHandled>>

\* After the loop: actor.deinitialize(); run returns.
Deinitialize(s) ==
    /\ spc[s] = "deinit"
    /\ spc' = [spc EXCEPT ![s] = "cleanup"]
    /\ UNCHANGED <<sysActors, nextSup, policy, mailbox, cur, attempts, sig,
                   sdPc, nextMsg, mTarget, mInv, mResp,
                   sdMark, preempted, cleared, stopped, lateHandled, exitBy>>

\* Mutant of Cleanup: the supervisor is dropped but the queued messages and
\* their responders stay alive.
Cleanup_KeepQueued(s) ==
    /\ spc[s] = "cleanup"
    /\ spc' = [spc EXCEPT ![s] = "dropped"]
    /\ sig' = [sig EXCEPT ![s] = 0]
    /\ UNCHANGED <<sysActors, nextSup, policy, mailbox, cur, attempts, sdPc,
                   nextMsg, mTarget, mInv, mResp, sdMark, preempted, cleared,
                   stopped, lateHandled, exitBy>>

\* ActorSupervisor::cleanup and drop(supervisor): the channel is closed, the
\* queued messages are dropped with their responders, the shutdown receiver
\* is dropped.
Cleanup(s) ==
    /\ spc[s] = "cleanup"
    /\ spc' = [spc EXCEPT ![s] = "dropped"]
    /\ mResp' = [m \in Msgs |->
          IF mTarget[m] = s /\ mResp[m] = "pending" THEN "noresponse" ELSE mResp[m]]
    /\ mailbox' = [mailbox EXCEPT ![s] = <<>>]
    /\ sig' = [sig EXCEPT ![s] = 0]
    /\ UNCHANGED <<sysActors, nextSup, policy, cur, attempts, sdPc, nextMsg, mTarget, mInv, sdMark, preempted,
                   cleared, stopped, lateHandled, exitBy>>

\* LocalHandle::request, the send: the message is queued when the channel is
\* open and has a free slot (a full channel makes the sender wait).
Send(s) ==
    /\ spc[s] \notin {"none", "dropped"}
    /\ exitBy[s] # "closed"
    /\ nextMsg <= MaxMsgs
    /\ Len(mailbox[s]) < MailboxCap
    /\ mailbox' = [mailbox EXCEPT ![s] = Append(mailbox[s], nextMsg)]
    /\ mTarget' = [mTarget EXCEPT ![nextMsg] = s]
    /\ mResp' = [mResp EXCEPT ![nextMsg] = "pending"]
    /\ nextMsg' = nextMsg + 1
    /\ UNCHANGED <<sysActors, nextSup, spc, policy, cur, attempts, sig, sdPc,
                   mInv, sdMark, preempted, cleared, stopped,
                   lateHandled, exitBy>>

\* The caller drops the future of its request after the message was queued:
\* the receiving half of the response one-shot is gone.
CancelWait(m) ==
    /\ m < nextMsg
    /\ mResp[m] = "pending"
    /\ mResp' = [mResp EXCEPT ![m] = "cancelled"]
    /\ UNCHANGED <<sysActors, nextSup, spc, policy, mailbox, cur, attempts,
                   sig, sdPc, nextMsg, mTarget, mInv, sdMark, preempted,
                   cleared, stopped, lateHandled, exitBy>>

\* A request through a handle whose supervisor is gone: the channel is
\* closed, nothing is queued and the sender gets NoResponse.
SendGone(s) ==
    /\ spc[s] = "dropped"
    /\ nextMsg <= MaxMsgs
    /\ mTarget' = [mTarget EXCEPT ![nextMsg] = s]
    /\ mResp' = [mResp EXCEPT ![nextMsg] = "noresponse"]
    /\ nextMsg' = nextMsg + 1
    /\ UNCHANGED <<sysActors, nextSup, spc, policy, mailbox, cur, attempts,
                   sig, sdPc, mInv, sdMark, preempted, cleared, stopped,
                   lateHandled, exitBy>>

\* System::shutdown, `self.shutdown.send(())`: every receiver subscribed at
\* this moment gets the signal.
ShutdownSend ==
    /\ sdPc = "idle"
    /\ sig' = [s \in Sups |-> IF s \in Alive THEN sig[s] + 1 ELSE sig[s]]
    /\ sdMark' = nextMsg - 1
    /\ sdPc' = "sent"
    /\ UNCHANGED <<sysActors, nextSup, spc, policy, mailbox, cur, attempts,
                   nextMsg, mTarget, mInv, mResp, preempted,
                   cleared, stopped, lateHandled, exitBy>>

\* System::shutdown, under the write lock: actors.clear().
ShutdownClear ==
    /\ sdPc = "sent"
    /\ cleared' = {sysActors[i] : i \in Ids} \ {NoSup}
    /\ sysActors' = [i \in Ids |-> NoSup]
    /\ sdPc' = "cleared"
    /\ UNCHANGED <<nextSup, spc, policy, mailbox, cur, attempts, sig, nextMsg, mTarget, mInv, mResp, sdMark, preempted,
                   stopped, lateHandled, exitBy>>

\* System::drain_shutdown ends when the broadcast queue is empty, i.e. every
\* live receiver has seen every signal; shutdown returns.
ShutdownReturn ==
    /\ sdPc = "cleared"
    /\ \A s \in Alive : sig[s] = 0
    /\ stopped' = stopped \cup cleared
    /\ cleared' = {}
    /\ sdPc' = "idle"
    /\ UNCHANGED <<sysActors, nextSup, spc, policy, mailbox, cur, attempts,
                   sig, nextMsg, mTarget, mInv, mResp,
                   sdMark, preempted, lateHandled, exitBy>>

NextSys ==
    \/ \E i \in Ids, pol \in Policies : AddActor(i, pol) /\ UNCHANGED <<regVars, forVars, mbVars, cdc, lkVars, hkVars, adVars, gfVars, rlVars, ufVars>>
    \/ \E s \in Sups, ok \in BOOLEAN : RunInitialize(s, ok) /\ UNCHANGED <<regVars, forVars, mbVars, cdc, lkVars, hkVars, adVars, gfVars, rlVars, ufVars>>
    \/ \E s \in Sups : SelectShutdown(s) /\ UNCHANGED <<regVars, forVars, mbVars, cdc, lkVars, hkVars, adVars, gfVars, rlVars, ufVars>>
    \/ \E s \in Sups : RecvMessage(s) /\ UNCHANGED <<regVars, forVars, mbVars, cdc, lkVars, hkVars, adVars, gfVars, rlVars, ufVars>>
    \/ \E s \in Sups, ok \in BOOLEAN : HandleMessage(s, ok) /\ UNCHANGED <<regVars, forVars, mbVars, cdc, lkVars, hkVars, adVars, gfVars, rlVars, ufVars>>
    \/ \E s \in Sups : Deinitialize(s) /\ UNCHANGED <<regVars, forVars, mbVars, cdc, lkVars, hkVars, adVars, gfVars, rlVars, ufVars>>
    \/ \E s \in Sups : Cleanup(s) /\ UNCHANGED <<regVars, forVars, mbVars, cdc, lkVars, hkVars, adVars, gfVars, rlVars, ufVars>>
    \/ \E s \in Sups : Send(s) /\ UNCHANGED <<regVars, forVars, mbVars, cdc, lkVars, hkVars, adVars, gfVars, rlVars, ufVars>>
    \/ \E s \in Sups : SendGone(s) /\ UNCHANGED <<regVars, forVars, mbVars, cdc, lkVars, hkVars, adVars, gfVars, rlVars, ufVars>>
    \/ ShutdownSend /\ UNCHANGED <<regVars, forVars, mbVars, cdc, lkVars, hkVars, adVars, gfVars, rlVars, ufVars>>
    \/ ShutdownClear /\ UNCHANGED <<regVars, forVars, mbVars, cdc, lkVars, hkVars, adVars, gfVars, rlVars, ufVars>>
    \/ ShutdownReturn /\ UNCHANGED <<regVars, forVars, mbVars, cdc, lkVars, hkVars, adVars, gfVars, rlVars, ufVars>>

SpecSys == Init /\ [][NextSys]_vars

\* The supervisors with callers that may give up waiting for a response,
\* in the runs where System::shutdown is not called: a supervisor ends by
\* its error policy only.
NextSysCancel ==
    \/ \E i \in Ids, pol \in Policies : AddActor(i, pol) /\ UNCHANGED <<regVars, forVars, mbVars, cdc, lkVars, hkVars, adVars, gfVars, rlVars, ufVars>>
    \/ \E s \in Sups, ok \in BOOLEAN : RunInitialize(s, ok) /\ UNCHANGED <<regVars, forVars, mbVars, cdc, lkVars, hkVars, adVars, gfVars, rlVars, ufVars>>
    \/ \E s \in Sups : RecvMessage(s) /\ UNCHANGED <<regVars, forVars, mbVars, cdc, lkVars, hkVars, adVars, gfVars, rlVars, ufVars>>
    \/ \E s \in Sups, ok \in BOOLEAN : HandleMessage(s, ok) /\ UNCHANGED <<regVars, forVars, mbVars, cdc, lkVars, hkVars, adVars, gfVars, rlVars, ufVars>>
    \/ \E s \in Sups : Deinitialize(s) /\ UNCHANGED <<regVars, forVars, mbVars, cdc, lkVars, hkVars, adVars, gfVars, rlVars, ufVars>>
    \/ \E s \in Sups : Cleanup(s) /\ UNCHANGED <<regVars, forVars, mbVars, cdc, lkVars, hkVars, adVars, gfVars, rlVars, ufVars>>
    \/ \E s \in Sups : Send(s) /\ UNCHANGED <<regVars, forVars, mbVars, cdc, lkVars, hkVars, adVars, gfVars, rlVars, ufVars>>
    \/ \E s \in Sups : SendGone(s) /\ UNCHANGED <<regVars, forVars, mbVars, cdc, lkVars, hkVars, adVars, gfVars, rlVars, ufVars>>
    \/ \E m \in Msgs : CancelWait(m) /\ UNCHANGED <<regVars, forVars, mbVars, cdc, lkVars, hkVars, adVars, gfVars, rlVars, ufVars>>

SpecSysCancel == Init /\ [][NextSysCancel]_vars

\* One step of supervisor s's task after its loop: deinitialize returns,
\* cleanup returns and the supervisor is dropped.
EndStep(s) ==
    /\ Deinitialize(s) \/ Cleanup(s)
    /\ UNCHANGED <<regVars, forVars, mbVars, cdc, lkVars, hkVars, adVars, gfVars, rlVars, ufVars>>

\* The same runs when the task of a supervisor that has left its loop is
\* scheduled and its deinitialize and cleanup hooks return.
SpecSysCancelFair ==
    /\ SpecSysCancel
    /\ \A s \in Sups : WF_vars(EndStep(s))

\* The system with actors under every initialize policy and with foreign
\* messages whose response may fail to serialize.
NextSysHooks ==
    \/ \E i \in Ids, pol \in InitPolicies : AddActor(i, pol) /\ UNCHANGED <<regVars, forVars, mbVars, cdc, lkVars, hkVars, adVars, gfVars, rlVars, ufVars>>
    \/ \E s \in Sups, ok \in BOOLEAN : RunInitialize(s, ok) /\ UNCHANGED <<regVars, forVars, mbVars, cdc, lkVars, hkVars, adVars, gfVars, rlVars, ufVars>>
    \/ \E s \in Sups : SelectShutdown(s) /\ UNCHANGED <<regVars, forVars, mbVars, cdc, lkVars, hkVars, adVars, gfVars, rlVars, ufVars>>
    \/ \E s \in Sups : RecvMessage(s) /\ UNCHANGED <<regVars, forVars, mbVars, cdc, lkVars, hkVars, adVars, gfVars, rlVars, ufVars>>
    \/ \E s \in Sups, ok \in BOOLEAN : HandleMessage(s, ok) /\ UNCHANGED <<regVars, forVars, mbVars, cdc, lkVars, hkVars, adVars, gfVars, rlVars, ufVars>>
    \/ \E s \in Sups : RespondFail(s) /\ UNCHANGED <<regVars, forVars, mbVars, cdc, lkVars, hkVars, adVars, gfVars, rlVars, ufVars>>
    \/ \E s \in Sups : Deinitialize(s) /\ UNCHANGED <<regVars, forVars, mbVars, cdc, lkVars, hkVars, adVars, gfVars, rlVars, ufVars>>
    \/ \E s \in Sups : Cleanup(s) /\ UNCHANGED <<regVars, forVars, mbVars, cdc, lkVars, hkVars, adVars, gfVars, rlVars, ufVars>>
    \/ \E s \in Sups : Send(s) /\ UNCHANGED <<regVars, forVars, mbVars, cdc, lkVars, hkVars, adVars, gfVars, rlVars, ufVars>>
    \/ ShutdownSend /\ UNCHANGED <<regVars, forVars, mbVars, cdc, lkVars, hkVars, adVars, gfVars, rlVars, ufVars>>
    \/ ShutdownClear /\ UNCHANGED <<regVars, forVars, mbVars, cdc, lkVars, hkVars, adVars, gfVars, rlVars, ufVars>>
    \/ ShutdownReturn /\ UNCHANGED <<regVars, forVars, mbVars, cdc, lkVars, hkVars, adVars, gfVars, rlVars, ufVars>>

SpecSysHooks == Init /\ [][NextSysHooks]_vars

\* The system whose actors all run under the default error policy, with
\* handles that may all be dropped.
NextSysDefault ==
    \/ \E i \in Ids : AddActor(i, DefaultPolicy) /\ UNCHANGED <<regVars, forVars, mbVars, cdc, lkVars, hkVars, adVars, gfVars, rlVars, ufVars>>
    \/ \E s \in Sups, ok \in BOOLEAN : RunInitialize(s, ok) /\ UNCHANGED <<regVars, forVars, mbVars, cdc, lkVars, hkVars, adVars, gfVars, rlVars, ufVars>>
    \/ \E s \in Sups : SelectShutdown(s) /\ UNCHANGED <<regVars, forVars, mbVars, cdc, lkVars, hkVars, adVars, gfVars, rlVars, ufVars>>
    \/ \E s \in Sups : RecvMessage(s) /\ UNCHANGED <<regVars, forVars, mbVars, cdc, lkVars, hkVars, adVars, gfVars, rlVars, ufVars>>
    \/ \E s \in Sups, ok \in BOOLEAN : HandleMessage(s, ok) /\ UNCHANGED <<regVars, forVars, mbVars, cdc, lkVars, hkVars, adVars, gfVars, rlVars, ufVars>>
    \/ \E s \in Sups : ChannelClosed(s) /\ UNCHANGED <<regVars, forVars, mbVars, cdc, lkVars, hkVars, adVars, gfVars, rlVars, ufVars>>
    \/ \E s \in Sups : Deinitialize(s) /\ UNCHANGED <<regVars, forVars, mbVars, cdc, lkVars, hkVars, adVars, gfVars, rlVars, ufVars>>
    \/ \E s \in Sups : Cleanup(s) /\ UNCHANGED <<regVars, forVars, mbVars, cdc, lkVars, hkVars, adVars, gfVars, rlVars, ufVars>>
    \/ \E s \in Sups : Send(s) /\ UNCHANGED <<regVars, forVars, mbVars, cdc, lkVars, hkVars, adVars, gfVars, rlVars, ufVars>>
    \/ ShutdownSend /\ UNCHANGED <<regVars, forVars, mbVars, cdc, lkVars, hkVars, adVars, gfVars, rlVars, ufVars>>
    \/ ShutdownClear /\ UNCHANGED <<regVars, forVars, mbVars, cdc, lkVars, hkVars, adVars, gfVars, rlVars, ufVars>>
    \/ ShutdownReturn /\ UNCHANGED <<regVars, forVars, mbVars, cdc, lkVars, hkVars, adVars, gfVars, rlVars, ufVars>>

SpecSysDefault == Init /\ [][NextSysDefault]_vars

\* ========================================================= foreign channel
\* System::get_foreign : the outside listener takes the receiver, once.
GetForeign ==
    /\ frx = "held"
    /\ frx' = "taken"
    /\ UNCHANGED <<fq, fmsg, fNext>>

\* The listener drops the receiver: the channel closes, what was queued is
\* dropped with its responder, and a sender waiting on it gets
\* ForeignRespondFailed.
ListenerDrop ==
    /\ frx = "taken"
    /\ frx' = "closed"
    /\ fq' = <<>>
    /\ fmsg' = [m \in FMsgs |->
                  IF \E i \in 1..Len(fq) : fq[i] = m
                      THEN [fmsg[m] EXCEPT
                              !.fate = "lost",
                              !.st = "done",
                              !.res = IF fmsg[m].resp THEN "err" ELSE fmsg[m].res,
                              !.err = IF fmsg[m].resp THEN "ForeignRespondFailed"
                                      ELSE fmsg[m].err,
                              !.caller = IF fmsg[m].resp THEN "closed"
                                         ELSE fmsg[m].caller]
                      ELSE fmsg[m]]
    /\ UNCHANGED fNext

\* System::can_send_foreign : the receiver is no longer stored in the system.
can_send_foreign == frx # "held"

\* ForeignMessenger::send_message_foreign up to the test of
\* can_send_foreign: with nobody listening it returns Ok(()) and the message
\* and its responder are dropped.
SendMessageForeign(resp) ==
    /\ fNext <= MaxForeign
    /\ fmsg' = [fmsg EXCEPT ![fNext] =
                  IF can_send_foreign
                      THEN [NoFMsg EXCEPT !.st = "sending", !.resp = resp,
                                          !.caller = IF resp THEN "waiting" ELSE "none"]
                      ELSE [NoFMsg EXCEPT !.st = "done", !.resp = resp,
                                          !.res = "ok", !.fate = "discarded",
                                          !.caller = IF resp THEN "closed" ELSE "none"]]
    /\ fNext' = fNext + 1
    /\ UNCHANGED <<frx, fq>>

\* send_raw_foreign : the send on the foreign channel fails with
\* ForeignSendFail when the channel is closed and queues the message
\* otherwise; without a responder send_message_foreign then returns Ok(()).
SendRawForeign(m) ==
    /\ fmsg[m].st = "sending"
    /\ IF frx = "closed"
         THEN /\ fmsg' = [fmsg EXCEPT ![m].st = "done", ![m].res = "err",
                                      ![m].fate = "refused",
                                      ![m].err = "ForeignSendFail",
                                      ![m].caller =
                                          IF fmsg[m].resp THEN "closed" ELSE "none"]
              /\ fq' = fq
         ELSE /\ Len(fq) < ForeignCap
              /\ fq' = Append(fq, m)
              /\ fmsg' = [fmsg EXCEPT
                            ![m].sends = @ + 1,
                            ![m].fate = "queued",
                            ![m].st = IF fmsg[m].resp THEN "waiting" ELSE "done",
                            ![m].res = IF fmsg[m].resp THEN "none" ELSE "ok"]
    /\ UNCHANGED <<frx, fNext>>

\* The listener receives the head of the foreign channel.
ListenerRecv ==
    /\ frx = "taken"
    /\ fq # <<>>
    /\ fmsg' = [fmsg EXCEPT ![Head(fq)].fate = "handed"]
    /\ fq' = Tail(fq)
    /\ UNCHANGED <<frx, fNext>>

\* Mutant of ForeignRespond: whatever arrives through the foreign responder
\* is relayed to the caller.
ForeignRespond_RelayAnyway(m, reply) ==
    /\ fmsg[m].st = "waiting"
    /\ fmsg[m].fate = "handed"
    /\ fmsg' = [fmsg EXCEPT
                  ![m].st = "done",
                  ![m].reply = reply,
                  ![m].res = IF reply = "dropped" THEN "err" ELSE "ok",
                  ![m].err = IF reply = "dropped" THEN "ForeignRespondFailed" ELSE "-",
                  ![m].caller = IF reply = "dropped" THEN "closed" ELSE "value"]
    /\ UNCHANGED <<frx, fq, fNext>>

\* send_message_foreign after the send: `source.await` ends when the
\* listener answers through the foreign responder or drops it
\* (ForeignRespondFailed); the answer is downcast to M::Response
\* (ForeignResponseUnexpected for another type) and only then relayed with
\* target.send. On either `?` the caller's responder is dropped unsent.
ForeignRespond(m, reply) ==
    /\ fmsg[m].st = "waiting"
    /\ fmsg[m].fate = "handed"
    /\ fmsg' = [fmsg EXCEPT
                  ![m].st = "done",
                  ![m].reply = reply,
                  ![m].res = IF reply = "response" THEN "ok" ELSE "err",
                  ![m].err = CASE reply = "response" -> "-"
                               [] reply = "dropped" -> "ForeignRespondFailed"
                               [] OTHER -> "ForeignResponseUnexpected",
                  ![m].caller = IF reply = "response" THEN "value" ELSE "closed"]
    /\ UNCHANGED <<frx, fq, fNext>>

NextFor ==
    \/ GetForeign /\ UNCHANGED <<regVars, sysVars, mbVars, cdc, lkVars, hkVars, adVars, gfVars, rlVars, ufVars>>
    \/ ListenerDrop /\ UNCHANGED <<regVars, sysVars, mbVars, cdc, lkVars, hkVars, adVars, gfVars, rlVars, ufVars>>
    \/ \E resp \in BOOLEAN : SendMessageForeign(resp) /\ UNCHANGED <<regVars, sysVars, mbVars, cdc, lkVars, hkVars, adVars, gfVars, rlVars, ufVars>>
    \/ \E m \in FMsgs : SendRawForeign(m) /\ UNCHANGED <<regVars, sysVars, mbVars, cdc, lkVars, hkVars, adVars, gfVars, rlVars, ufVars>>
    \/ ListenerRecv /\ UNCHANGED <<regVars, sysVars, mbVars, cdc, lkVars, hkVars, adVars, gfVars, rlVars, ufVars>>
    \/ \E m \in FMsgs, reply \in Replies : ForeignRespond(m, reply) /\ UNCHANGED <<regVars, sysVars, mbVars, cdc, lkVars, hkVars, adVars, gfVars, rlVars, ufVars>>

SpecForeign == Init /\ [][NextFor]_vars

\* ================================================================== claims
StrictlyIncreasing(s) ==
    \A i, j \in 1..Len(s) : i < j => s[i] < s[j]

\* C1: the ids returned by add / add_named are pairwise distinct and, in the
\* order in which the calls register, strictly increasing.
C1_IdsStrictlyIncreasing == StrictlyIncreasing(returned)

\* C2: an id that kill removed is never returned again by a later add or
\* add_named of the same system.
C2_NoIdReuse == reuse = {}

\* C3: lookup round trip.  Once add_named(n, a) has bound n to id, and as
\* long as no kill or shutdown has removed an entry since a was registered
\* and no other add_named has bound n, get_actor_id(n) is id and
\* get_local(id) is a handle to a.
C3_LookupRoundTrip ==
    \A n \in Names :
        (nameHist[n].set /\ nameHist[n].intact) =>
            /\ get_actor_id(n) = nameHist[n].id
            /\ get_local(nameHist[n].id) = nameHist[n].actor

\* A name bound by an add_named that has returned, its actor stored under a
\* key other than the first.
C3_Witness ==
    \E n \in Names :
        /\ nameHist[n].set /\ nameHist[n].intact
        /\ lastRes[nameHist[n].actor] = "ok"
        /\ nameHist[n].id > 0
        /\ get_actor_id(n) = nameHist[n].id
        /\ get_local(nameHist[n].id) = nameHist[n].actor

\* C4: name overwrite.  An add_named on a name that was bound to a live
\* actor succeeds, the name then resolves to the id of the second actor, and
\* both actors are still stored under their ids.
C4_NameOverwrite ==
    \A n \in Names :
        (nameHist[n].set /\ nameHist[n].intact /\ nameHist[n].old # NoId) =>
            /\ get_actor_id(n) = nameHist[n].id
            /\ get_local(nameHist[n].id) = nameHist[n].actor
            /\ get_local(nameHist[n].old) = nameHist[n].oldActor

\* A name rebound from a live first actor to a second one, both alive.
C4_Witness ==
    \E n \in Names :
        /\ nameHist[n].set /\ nameHist[n].intact
        /\ nameHist[n].old # NoId
        /\ nameHist[n].old # nameHist[n].id
        /\ nameHist[n].oldActor # NoActor
        /\ nameHist[n].oldActor # nameHist[n].actor
        /\ get_local(nameHist[n].old) = nameHist[n].oldActor
        /\ get_local(nameHist[n].id) = nameHist[n].actor
        /\ get_actor_id(n) = nameHist[n].id

\* No actor whose initialize failed is stored, and no name was bound for it.
C5_FailedNotRegistered ==
    \A a \in Actors :
        initState[a] = "failed" =>
            /\ a \notin SlabActors
            /\ \A n \in Names : nameHist[n].actor # a

\* The step in which initialize fails returns the error and changes neither
\* the slab nor the name map.
C5_FailStep ==
    \A t \in Tasks :
        (pc[t] = "initializing" /\ initState'[loc[t].actor] = "failed") =>
            /\ pc'[t] = "idle"
            /\ lastRes'[loc[t].actor] = "err"
            /\ entries' = entries
            /\ slabNext' = slabNext
            /\ actor_ids' = actor_ids

C11_RejectedAfterShutdown ==
    goneAt # 0 => \A a \in SlabActors : a < goneAt

\* C11 amended: shutdown() does not close the system: an add or add_named
\* issued after shutdown() returned, whose initialize succeeded, spawns its
\* actor under the id it returns, exactly as before the shutdown.
C11_StillOperating ==
    [][\A t \in Tasks :
          (goneAt # 0 /\ loc[t].actor >= goneAt /\ pc[t] = "add_lock"
              /\ pc'[t] # "add_lock")
          => /\ slabNext < Len(entries')
             /\ entries'[slabNext + 1] = Occupied(loc[t].actor)
             /\ pc'[t] = IF loc[t].name = NoName THEN "idle" ELSE "name_lock"]_vars

\* An actor handed to add after a shutdown returned is registered.
C11_Witness ==
    /\ goneAt # 0
    /\ \E a \in SlabActors : a >= goneAt /\ initState[a] = "ok"

\* What get_local answers for every id.
IdMap == [id \in SlabIds |-> get_local(id)]

\* C12: kill is idempotent: kill(id) for an id that holds no actor (never
\* allocated or already killed) returns and leaves what get_local and
\* get_actor_id answer unchanged, in its first statement and in its shrink;
\* for an id that does not fit usize it returns without any step.
C12_KillIdempotent ==
    [][\A t \in Tasks :
          /\ (pc[t] = "idle" /\ pc'[t] = "kill_shrink") =>
                \A id \in SlabIds :
                    (get_local(id) = NoActor /\ KillRemove(t, id))
                        => (IdMap' = IdMap /\ actor_ids' = actor_ids)
          /\ (pc[t] = "kill_shrink" /\ pc'[t] = "idle") =>
                (IdMap' = IdMap /\ actor_ids' = actor_ids)]_vars

\* A kill that removed nothing is about to shrink a registry that holds an
\* actor and a bound name.
C12_Witness ==
    /\ \E t \in Tasks : pc[t] = "kill_shrink"
    /\ killedIds = {}
    /\ SlabActors # {}
    /\ \E n \in Names : actor_ids[n] # NoId

\* C13: after kill(id) has returned, get_local(id) is None, whatever actors
\* are added afterwards (stated for the moments when no kill is in progress).
C13_KilledStaysGone ==
    (\A t \in Tasks : pc[t] # "kill_shrink")
        => \A id \in killedIds : get_local(id) = NoActor

\* C14: a name is never resolved to a dead id or to another actor: while no
\* shutdown has happened, a bound name yields the id under which the actor it
\* was bound to is still stored.
C14_StaleNameIsMiss ==
    \A n \in Names :
        (goneAt = 0 /\ get_actor_id(n) # NoId)
            => get_local(get_actor_id(n)) = nameHist[n].actor

\* C15: when shutdown() returns both maps are empty: get_local is None for
\* every id and get_actor_id is None for every name.
C15_ShutdownEmptiesBoth ==
    [][(\E t \in Tasks : FluxionShutdown(t))
          => /\ entries' = <<>>
             /\ \A n \in Names : actor_ids'[n] = NoId]_vars

\* ------------------------------------------------- claims on System (SpecSys)
\* C7: once System::shutdown has returned, no handler of a supervisor that
\* was registered when the shutdown cleared the actor map is invoked any more.
C7_NoPostShutdownDelivery == lateHandled = {}

\* C8: shutdown does not preempt: a message that was enqueued before the
\* shutdown request was issued is never still waiting in the mailbox when the
\* supervisor leaves its loop on that request.
C8_ShutdownDoesNotPreempt == preempted = {}

\* C9: per-mailbox FIFO: of two messages enqueued for the same supervisor,
\* the handler is invoked for the later one only after it was invoked for the
\* earlier one. The sends of one caller are a subsequence of the sends to the
\* supervisor, so this holds for them under every interleaving with others.
C9_MailboxFifo ==
    \A m1, m2 \in Msgs :
        (m1 < m2 /\ m2 < nextMsg /\ mTarget[m1] = mTarget[m2] /\ mInv[m2] > 0)
            => mInv[m1] > 0

\* Two messages of one mailbox, both handled and answered.
C9_Witness ==
    \E m1, m2 \in Msgs :
        /\ m1 < m2
        /\ m2 < nextMsg
        /\ mTarget[m1] = mTarget[m2]
        /\ mInv[m1] > 0
        /\ mInv[m2] > 0
        /\ mResp[m1] = "ok"
        /\ mResp[m2] = "ok"

\* C10 as stated: under every message_handler policy, the handler is invoked
\* zero or one times for every message.
C10_AtMostOnce == \A m \in Msgs : mInv[m] <= 1

\* C10 amended: the handler is invoked at most once for a message under the
\* policies ignore and fail, and at most once plus MaxRetry re-invocations
\* under a retry policy.
C10_AtMostOncePlusRetries ==
    \A m \in Msgs :
        m < nextMsg =>
            mInv[m] <= IF policy[mTarget[m]].mh \in {"ignore", "fail"}
                          THEN 1
                          ELSE 1 + MaxRetry

\* A message whose handler failed on every run a retry policy gave it.
C10_Witness ==
    \E m \in Msgs :
        /\ m < nextMsg
        /\ policy[mTarget[m]].mh \in {"retry_ignore", "retry_fail"}
        /\ mInv[m] = 1 + MaxRetry
        /\ mResp[m] = "noresponse"


\* ======================================================= mailbox capacity
\* Mutant of MbSend: a send that finds the channel full gives the envelope
\* up instead of waiting.
MbSend_DropWhenFull(c) ==
    /\ bwait[c] = NoEnv
    /\ bNext <= MaxEnv
    /\ bNext' = bNext + 1
    /\ bq' = IF Len(bq) < MailboxCap THEN Append(bq, bNext) ELSE bq
    /\ UNCHANGED <<bTaken, bwait, bWaited>>

\* LocalHandle::request, `sender.send(..).await` on the channel of
\* `mpsc::channel(64)`: the envelope is queued when a slot is free, else the
\* sender waits with it.
MbSend(c) ==
    /\ bwait[c] = NoEnv
    /\ bNext <= MaxEnv
    /\ bNext' = bNext + 1
    /\ IF Len(bq) < MailboxCap
         THEN /\ bq' = Append(bq, bNext)
              /\ UNCHANGED <<bwait, bWaited>>
         ELSE /\ bwait' = [bwait EXCEPT ![c] = bNext]
              /\ bWaited' = bWaited \cup {bNext}
              /\ bq' = bq
    /\ UNCHANGED bTaken

\* A waiting sender gets the slot that became free.
MbSendResume(c) ==
    /\ bwait[c] # NoEnv
    /\ Len(bq) < MailboxCap
    /\ bq' = Append(bq, bwait[c])
    /\ bwait' = [bwait EXCEPT ![c] = NoEnv]
    /\ UNCHANGED <<bNext, bTaken, bWaited>>

\* The supervisor's `self.message.recv()` takes the oldest envelope.
MbRecv ==
    /\ bq # <<>>
    /\ bq' = Tail(bq)
    /\ bTaken' = bTaken + 1
    /\ UNCHANGED <<bNext, bwait, bWaited>>

NextMb ==
    \/ \E c \in Tasks : MbSend(c) /\ UNCHANGED <<regVars, sysVars, forVars, cdc, lkVars, hkVars, adVars, gfVars, rlVars, ufVars>>
    \/ \E c \in Tasks : MbSendResume(c) /\ UNCHANGED <<regVars, sysVars, forVars, cdc, lkVars, hkVars, adVars, gfVars, rlVars, ufVars>>
    \/ MbRecv /\ UNCHANGED <<regVars, sysVars, forVars, cdc, lkVars, hkVars, adVars, gfVars, rlVars, ufVars>>

SpecMailbox == Init /\ [][NextMb]_vars

\* ======================================================= identifier codec
\* Text is a sequence of characters; the alphabet has a letter, the two
\* separators of the grammar and two digits.
Chars == {"a", "#", ":", "0", "7"}
Digits == {"0", "7"}
Texts == UNION {[1..n -> Chars] : n \in 0..MaxLen}

\* Stand-in for u64::MAX: the largest id that fits.
U64Max == 99

ParseError == [kind |-> "Error"]

\* The value of a digit and of a sequence of digits.
DigitVal(c) == IF c = "7" THEN 7 ELSE 0

RECURSIVE ValueOf(_)
ValueOf(ds) ==
    IF ds = <<>>
        THEN 0
        ELSE ValueOf(SubSeq(ds, 1, Len(ds) - 1)) * 10 + DigitVal(ds[Len(ds)])

\* The decimal digits of an id.
RECURSIVE DigitsOf(_)
DigitsOf(n) ==
    IF n < 10
        THEN <<IF n = 7 THEN "7" ELSE "0">>
        ELSE Append(DigitsOf(n \div 10), IF n % 10 = 7 THEN "7" ELSE "0")

\* Position of the first ':' of a text, 0 when it has none.
FirstColon(t) ==
    IF \E i \in 1..Len(t) : t[i] = ":"
        THEN CHOOSE i \in 1..Len(t) : t[i] = ":" /\ \A j \in 1..(i - 1) : t[j] # ":"
        ELSE 0

\* The part after the optional `system ':'` : `'#' u64` or a name.
ParseBody_Lenient(sys, b) ==
    IF b = <<>> \/ \E i \in 1..Len(b) : b[i] = ":"
        THEN ParseError
        ELSE IF b[1] = "#" /\ Len(b) > 1
                  /\ (\A i \in 2..Len(b) : b[i] \in Digits)
                  /\ ValueOf(Tail(b)) <= U64Max
                 THEN IF sys = <<>>
                        THEN [kind |-> "Local", id |-> ValueOf(Tail(b))]
                        ELSE [kind |-> "Foreign", system |-> sys, id |-> ValueOf(Tail(b))]
                 ELSE IF sys = <<>>
                        THEN [kind |-> "LocalNamed", name |-> b]
                        ELSE [kind |-> "ForeignNamed", system |-> sys, name |-> b]

ParseBody(sys, b) ==
    IF b = <<>> \/ \E i \in 1..Len(b) : b[i] = ":"
        THEN ParseError
        ELSE IF b[1] = "#"
                 THEN IF /\ Len(b) > 1
                         /\ \A i \in 2..Len(b) : b[i] \in Digits
                         /\ ValueOf(Tail(b)) <= U64Max
                        THEN IF sys = <<>>
                               THEN [kind |-> "Local", id |-> ValueOf(Tail(b))]
                               ELSE [kind |-> "Foreign", system |-> sys,
                                     id |-> ValueOf(Tail(b))]
                        ELSE ParseError
                 ELSE IF sys = <<>>
                        THEN [kind |-> "LocalNamed", name |-> b]
                        ELSE [kind |-> "ForeignNamed", system |-> sys, name |-> b]

\* Identifier parser: `(system ':')? (name | '#' u64)`.
parse(t) ==
    LET k == FirstColon(t)
    IN  IF k = 0
            THEN ParseBody(<<>>, t)
            ELSE IF k = 1
                     THEN ParseError
                     ELSE ParseBody(SubSeq(t, 1, k - 1), SubSeq(t, k + 1, Len(t)))

\* Identifier printer: the canonical text.
print(x) ==
    CASE x.kind = "Local" -> <<"#">> \o DigitsOf(x.id)
      [] x.kind = "LocalNamed" -> x.name
      [] x.kind = "Foreign" -> x.system \o <<":", "#">> \o DigitsOf(x.id)
      [] OTHER -> x.system \o <<":">> \o x.name

\* The well-formed identifiers whose canonical text is within MaxLen.
CodecIds == {0, 7, 70, 77}
CodecNames ==
    {t \in Texts : /\ t # <<>> /\ t[1] \notin {":", "#"}
                   /\ \A i \in 1..Len(t) : t[i] # ":"}
CodecSystems == {t \in Texts : t # <<>> /\ \A i \in 1..Len(t) : t[i] # ":"}
WellFormed ==
    {x \in [kind : {"Local"}, id : CodecIds]
          \cup [kind : {"LocalNamed"}, name : CodecNames]
          \cup [kind : {"Foreign"}, system : CodecSystems, id : CodecIds]
          \cup [kind : {"ForeignNamed"}, system : CodecSystems, name : CodecNames] :
        Len(print(x)) <= MaxLen}

\* A text of the grammar, said without the parser: an optional system
\* without ':' followed by ':', then a name or '#' and a u64.
InGrammar(t) ==
    \E k \in 0..Len(t) :
        LET b == SubSeq(t, k + 1, Len(t))
        IN  /\ k # 1
            /\ k > 0 => (t[k] = ":" /\ \A i \in 1..(k - 1) : t[i] # ":")
            /\ b # <<>>
            /\ \A i \in 1..Len(b) : b[i] # ":"
            /\ b[1] = "#" =>
                  /\ Len(b) > 1
                  /\ \A i \in 2..Len(b) : b[i] \in Digits
                  /\ ValueOf(Tail(b)) <= U64Max

\* A caller prints an identifier and parses the text back.
CodecPrint(x) ==
    /\ cdc = NoCall
    /\ cdc' = [op |-> "print", ident |-> x, text |-> print(x),
               back |-> parse(print(x))]

\* A caller parses a text.
CodecParse(t) ==
    /\ cdc = NoCall
    /\ cdc' = [op |-> "parse", text |-> t, ident |-> parse(t)]

NextCodec ==
    \/ \E x \in WellFormed :
          CodecPrint(x) /\ UNCHANGED <<regVars, sysVars, forVars, mbVars, lkVars, hkVars, adVars, gfVars, rlVars, ufVars>>
    \/ \E t \in Texts :
          CodecParse(t) /\ UNCHANGED <<regVars, sysVars, forVars, mbVars, lkVars, hkVars, adVars, gfVars, rlVars, ufVars>>

SpecCodec == Init /\ [][NextCodec]_vars

\* ========================================================== registry lock
\* `slacktor.write().await` can be taken when nobody holds the lock,
\* `slacktor.read().await` when nobody holds it for writing.
CanWrite == lockW = NoTask /\ lockR = {}
CanRead == lockW = NoTask

\* Fluxion::add, `actor.initialize().await` : user code runs, no lock held.
LockAddBegin(t) ==
    /\ lpc[t] = "idle"
    /\ lpc' = [lpc EXCEPT ![t] = "add_init"]
    /\ hook' = [hook EXCEPT ![t] = "run"]
    /\ UNCHANGED <<lockW, lockR>>

\* Fluxion::add, `let mut system = self.slacktor.write().await` once
\* initialize has returned.
LockAddWrite(t) ==
    /\ lpc[t] = "add_init"
    /\ hook[t] = "run"
    /\ CanWrite
    /\ lockW' = t
    /\ lpc' = [lpc EXCEPT ![t] = "add_spawn"]
    /\ hook' = [hook EXCEPT ![t] = "none"]
    /\ UNCHANGED lockR

\* Fluxion::add, spawn and return: the guard is dropped.
LockAddSpawn(t) ==
    /\ lpc[t] = "add_spawn"
    /\ lockW' = NoTask
    /\ lpc' = [lpc EXCEPT ![t] = "idle"]
    /\ UNCHANGED <<lockR, hook>>

\* Fluxion::kill, `self.slacktor.write().await.kill::<..>(id).await` : the
\* write guard is a temporary of the statement, so it lives while the
\* actor's end is awaited.
LockKillWrite(t) ==
    /\ lpc[t] = "idle"
    /\ CanWrite
    /\ lockW' = t
    /\ lpc' = [lpc EXCEPT ![t] = "kill_await"]
    /\ hook' = [hook EXCEPT ![t] = "run"]
    /\ UNCHANGED lockR

\* Fluxion::kill, end of the first statement: the awaited end has come and
\* the guard is dropped.
LockKillRelease(t) ==
    /\ lpc[t] = "kill_await"
    /\ hook[t] = "run"
    /\ lockW' = NoTask
    /\ lpc' = [lpc EXCEPT ![t] = "kill_shrink"]
    /\ hook' = [hook EXCEPT ![t] = "none"]
    /\ UNCHANGED lockR

\* Fluxion::kill, `self.slacktor.write().await.shrink()`.
LockShrink(t) ==
    /\ lpc[t] = "kill_shrink"
    /\ CanWrite
    /\ lpc' = [lpc EXCEPT ![t] = "idle"]
    /\ UNCHANGED <<lockW, lockR, hook>>

\* Fluxion::shutdown, `self.slacktor.write().await.shutdown().await` : as in
\* kill, the guard lives while the actors' ends are awaited.
LockShutdownWrite(t) ==
    /\ lpc[t] = "idle"
    /\ CanWrite
    /\ lockW' = t
    /\ lpc' = [lpc EXCEPT ![t] = "shutdown_await"]
    /\ hook' = [hook EXCEPT ![t] = "run"]
    /\ UNCHANGED lockR

\* Fluxion::shutdown returns.
LockShutdownRelease(t) ==
    /\ lpc[t] = "shutdown_await"
    /\ hook[t] = "run"
    /\ lockW' = NoTask
    /\ lpc' = [lpc EXCEPT ![t] = "idle"]
    /\ hook' = [hook EXCEPT ![t] = "none"]
    /\ UNCHANGED lockR

\* Fluxion::get_local, `self.slacktor.read().await` by a caller.
LockGetRead(t) ==
    /\ lpc[t] = "idle"
    /\ CanRead
    /\ lockR' = lockR \cup {t}
    /\ lpc' = [lpc EXCEPT ![t] = "get_read"]
    /\ UNCHANGED <<lockW, hook>>

\* Fluxion::get_local returns: the read guard is dropped.
LockGetDone(t) ==
    /\ lpc[t] = "get_read"
    /\ lockR' = lockR \ {t}
    /\ lpc' = [lpc EXCEPT ![t] = "idle"]
    /\ UNCHANGED <<lockW, hook>>

\* A message is sent through a handle obtained earlier: the actor's handler
\* runs, and no registry lock is involved in the send.
LockHandlerBegin(t) ==
    /\ lpc[t] = "idle"
    /\ lpc' = [lpc EXCEPT ![t] = "handling"]
    /\ hook' = [hook EXCEPT ![t] = "run"]
    /\ UNCHANGED <<lockW, lockR>>

\* The handler returns.
LockHandlerDone(t) ==
    /\ lpc[t] = "handling"
    /\ hook[t] = "run"
    /\ lpc' = [lpc EXCEPT ![t] = "idle"]
    /\ hook' = [hook EXCEPT ![t] = "none"]
    /\ UNCHANGED <<lockW, lockR>>

\* The user code an operation runs or awaits calls get_local through its
\* context (ActorContext.system) and waits for the read lock.
HookLookup(t) ==
    /\ hook[t] = "run"
    /\ hook' = [hook EXCEPT ![t] = "wait"]
    /\ UNCHANGED <<lockW, lockR, lpc>>

\* That lookup gets the read lock, reads and returns.
HookLookupDone(t) ==
    /\ hook[t] = "wait"
    /\ CanRead
    /\ hook' = [hook EXCEPT ![t] = "run"]
    /\ UNCHANGED <<lockW, lockR, lpc>>

NextLock ==
    \/ \E t \in Tasks : LockAddBegin(t) /\ UNCHANGED <<regVars, sysVars, forVars, mbVars, cdc, hkVars, adVars, gfVars, rlVars, ufVars>>
    \/ \E t \in Tasks : LockAddWrite(t) /\ UNCHANGED <<regVars, sysVars, forVars, mbVars, cdc, hkVars, adVars, gfVars, rlVars, ufVars>>
    \/ \E t \in Tasks : LockAddSpawn(t) /\ UNCHANGED <<regVars, sysVars, forVars, mbVars, cdc, hkVars, adVars, gfVars, rlVars, ufVars>>
    \/ \E t \in Tasks : LockKillWrite(t) /\ UNCHANGED <<regVars, sysVars, forVars, mbVars, cdc, hkVars, adVars, gfVars, rlVars, ufVars>>
    \/ \E t \in Tasks : LockKillRelease(t) /\ UNCHANGED <<regVars, sysVars, forVars, mbVars, cdc, hkVars, adVars, gfVars, rlVars, ufVars>>
    \/ \E t \in Tasks : LockShrink(t) /\ UNCHANGED <<regVars, sysVars, forVars, mbVars, cdc, hkVars, adVars, gfVars, rlVars, ufVars>>
    \/ \E t \in Tasks : LockShutdownWrite(t) /\ UNCHANGED <<regVars, sysVars, forVars, mbVars, cdc, hkVars, adVars, gfVars, rlVars, ufVars>>
    \/ \E t \in Tasks : LockShutdownRelease(t) /\ UNCHANGED <<regVars, sysVars, forVars, mbVars, cdc, hkVars, adVars, gfVars, rlVars, ufVars>>
    \/ \E t \in Tasks : LockGetRead(t) /\ UNCHANGED <<regVars, sysVars, forVars, mbVars, cdc, hkVars, adVars, gfVars, rlVars, ufVars>>
    \/ \E t \in Tasks : LockGetDone(t) /\ UNCHANGED <<regVars, sysVars, forVars, mbVars, cdc, hkVars, adVars, gfVars, rlVars, ufVars>>
    \/ \E t \in Tasks : LockHandlerBegin(t) /\ UNCHANGED <<regVars, sysVars, forVars, mbVars, cdc, hkVars, adVars, gfVars, rlVars, ufVars>>
    \/ \E t \in Tasks : LockHandlerDone(t) /\ UNCHANGED <<regVars, sysVars, forVars, mbVars, cdc, hkVars, adVars, gfVars, rlVars, ufVars>>
    \/ \E t \in Tasks : HookLookup(t) /\ UNCHANGED <<regVars, sysVars, forVars, mbVars, cdc, hkVars, adVars, gfVars, rlVars, ufVars>>
    \/ \E t \in Tasks : HookLookupDone(t) /\ UNCHANGED <<regVars, sysVars, forVars, mbVars, cdc, hkVars, adVars, gfVars, rlVars, ufVars>>

SpecLock == Init /\ [][NextLock]_vars

\* ================================================= unexpected foreign payload
\* Mutant of as_message_type: the payload is taken for an M without the
\* downcast being looked at.
as_message_type_Unchecked(kind) == "Ok"

\* AsMessageType::as_message_type : a local message is an M; the payload of
\* a foreign message is downcast to M, which fails for another type.
as_message_type(kind) ==
    IF kind = "mistyped" THEN "ForeignResponseUnexpected" ELSE "Ok"

\* ActorSupervisor::new with an unexpected_foreign policy, and the start of
\* its loop.
UfNew(pol) ==
    /\ upc = "none"
    /\ upc' = "loop"
    /\ uPol' = pol
    /\ UNCHANGED <<uq, uKind, uN, ucur, uAtt, uHandled>>

\* A handle sends a local message, or handle_foreign passes on a foreign
\* one, whatever its payload.
UfSend(kind) ==
    /\ uN < MaxMsgs
    /\ upc \notin {"none", "out"}
    /\ uN' = uN + 1
    /\ uKind' = [uKind EXCEPT ![uN + 1] = kind]
    /\ uq' = Append(uq, uN + 1)
    /\ UNCHANGED <<upc, ucur, uAtt, uPol, uHandled>>

\* The message branch of the select! : recv() yields the oldest message.
UfRecv ==
    /\ upc = "loop"
    /\ uq # <<>>
    /\ ucur' = Head(uq)
    /\ uq' = Tail(uq)
    /\ upc' = "convert"
    /\ uAtt' = 0
    /\ UNCHANGED <<uKind, uN, uPol, uHandled>>

\* handle_policy!(message.as_message_type(), unexpected_foreign) : on Ok
\* the handler is next; on Err the policy decides: once more, `continue`,
\* or `break`.
UfConvert ==
    /\ upc = "convert"
    /\ LET out == IF as_message_type(uKind[ucur]) = "Ok" THEN "ok"
                  ELSE HandlePolicy(uPol, uAtt)
       IN /\ upc' = CASE out = "ok" -> "handle"
                      [] out = "again" -> "convert"
                      [] out = "ignore" -> "loop"
                      [] OTHER -> "out"
          /\ uAtt' = IF out = "again" THEN uAtt + 1 ELSE 0
          /\ ucur' = IF out \in {"ok", "again"} THEN ucur ELSE 0
    /\ UNCHANGED <<uq, uKind, uN, uPol, uHandled>>

\* self.actor.message(..) is called with the converted message.
UfHandle ==
    /\ upc = "handle"
    /\ uHandled' = Append(uHandled, ucur)
    /\ upc' = "loop"
    /\ ucur' = 0
    /\ UNCHANGED <<uq, uKind, uN, uAtt, uPol>>

NextUf ==
    \/ \E pol \in PolicyKinds : UfNew(pol) /\ UNCHANGED <<regVars, sysVars, forVars, mbVars, cdc, lkVars, hkVars, adVars, gfVars, rlVars>>
    \/ \E kind \in MsgKinds : UfSend(kind) /\ UNCHANGED <<regVars, sysVars, forVars, mbVars, cdc, lkVars, hkVars, adVars, gfVars, rlVars>>
    \/ UfRecv /\ UNCHANGED <<regVars, sysVars, forVars, mbVars, cdc, lkVars, hkVars, adVars, gfVars, rlVars>>
    \/ UfConvert /\ UNCHANGED <<regVars, sysVars, forVars, mbVars, cdc, lkVars, hkVars, adVars, gfVars, rlVars>>
    \/ UfHandle /\ UNCHANGED <<regVars, sysVars, forVars, mbVars, cdc, lkVars, hkVars, adVars, gfVars, rlVars>>

SpecUnexpected == Init /\ [][NextUf]_vars

\* ============================================================ relay_foreign
\* ActorPath::first, ActorPath::popfirst.
first(path) == IF path.systems = <<>> THEN "-" ELSE Head(path.systems)
popfirst(path) ==
    IF path.systems = <<>> THEN path ELSE [path EXCEPT !.systems = Tail(path.systems)]

\* System::is_foreign : the first system exists and is not this system.
is_foreign(path) == first(path) # "-" /\ first(path) # ThisSystem

\* Mutant of RelayTarget: the first system is popped from every path that is
\* relayed.
RelayTarget_PopAlways(path) ==
    IF is_foreign(path) \/ Len(path.systems) > 1
        THEN [to |-> "foreign", path |-> popfirst(path)]
        ELSE [to |-> "local", path |-> path]

\* System::relay_foreign, the branch taken and the target the message leaves
\* with.
RelayTarget(path) ==
    IF is_foreign(path) \/ Len(path.systems) > 1
        THEN [to |-> "foreign",
              path |-> IF is_foreign(path) THEN path ELSE popfirst(path)]
        ELSE [to |-> "local", path |-> path]

\* System::relay_foreign : the message goes on the foreign channel, or
\* send_foreign_to_local looks the actor up and hands it the message, or
\* returns ForeignTargetNotFound.
RelayForeign(path) ==
    /\ rN < MaxRelay
    /\ rN' = rN + 1
    /\ rLast' = path
    /\ LET r == RelayTarget(path)
       IN CASE r.to = "foreign" ->
                 /\ rq' = Append(rq, [id |-> rN + 1, path |-> r.path])
                 /\ rRes' = "Ok"
                 /\ UNCHANGED rLocal
            [] r.to = "local" /\ r.path.actor \in LocalActors ->
                 /\ rLocal' = Append(rLocal, [id |-> rN + 1, actor |-> r.path.actor])
                 /\ rRes' = "Ok"
                 /\ UNCHANGED rq
            [] OTHER ->
                 /\ rRes' = "ForeignTargetNotFound"
                 /\ UNCHANGED <<rq, rLocal>>

NextRelay ==
    \/ \E path \in Paths : RelayForeign(path) /\ UNCHANGED <<regVars, sysVars, forVars, mbVars, cdc, lkVars, hkVars, adVars, gfVars, ufVars>>

SpecRelay == Init /\ [][NextRelay]_vars

\* ==================================================== concurrent get_foreign
\* Mutant of GfLock: the mutex does not exclude another holder.
GfLock_Shared(t) ==
    /\ gpc[t] = "idle"
    /\ gLock' = t
    /\ gpc' = [gpc EXCEPT ![t] = "read"]
    /\ gRes' = [gRes EXCEPT ![t] = "none"]
    /\ UNCHANGED <<gGot, gRx, gCan, gSome>>

\* System::get_foreign, `self.foreign.foreign_reciever.lock().await`.
GfLock(t) ==
    /\ gpc[t] = "idle"
    /\ gLock = NoTask
    /\ gLock' = t
    /\ gpc' = [gpc EXCEPT ![t] = "read"]
    /\ gRes' = [gRes EXCEPT ![t] = "none"]
    /\ UNCHANGED <<gGot, gRx, gCan, gSome>>

\* std::mem::take, first half: the content is moved out.
GfRead(t) ==
    /\ gpc[t] = "read"
    /\ gGot' = [gGot EXCEPT ![t] = gRx]
    /\ gpc' = [gpc EXCEPT ![t] = "replace"]
    /\ UNCHANGED <<gLock, gRes, gRx, gCan, gSome>>

\* std::mem::take, second half: None is left in its place; the call returns
\* what it took and the guard is dropped.
GfReplace(t) ==
    /\ gpc[t] = "replace"
    /\ gRx' = "None"
    /\ gRes' = [gRes EXCEPT ![t] = gGot[t]]
    /\ gSome' = IF gGot[t] = "Some" THEN gSome + 1 ELSE gSome
    /\ gGot' = [gGot EXCEPT ![t] = "none"]
    /\ gpc' = [gpc EXCEPT ![t] = "idle"]
    /\ gLock' = NoTask
    /\ UNCHANGED gCan

\* System::can_send_foreign : `foreign_reciever.lock().await.is_none()`.
GfCanSend(t) ==
    /\ gpc[t] = "idle"
    /\ gLock = NoTask
    /\ gCan' = [gCan EXCEPT ![t] = IF gRx = "None" THEN "true" ELSE "false"]
    /\ UNCHANGED <<gLock, gpc, gGot, gRes, gRx, gSome>>

NextGf ==
    \/ \E t \in Tasks : GfLock(t) /\ UNCHANGED <<regVars, sysVars, forVars, mbVars, cdc, lkVars, hkVars, adVars, rlVars, ufVars>>
    \/ \E t \in Tasks : GfRead(t) /\ UNCHANGED <<regVars, sysVars, forVars, mbVars, cdc, lkVars, hkVars, adVars, rlVars, ufVars>>
    \/ \E t \in Tasks : GfReplace(t) /\ UNCHANGED <<regVars, sysVars, forVars, mbVars, cdc, lkVars, hkVars, adVars, rlVars, ufVars>>
    \/ \E t \in Tasks : GfCanSend(t) /\ UNCHANGED <<regVars, sysVars, forVars, mbVars, cdc, lkVars, hkVars, adVars, rlVars, ufVars>>

SpecGetForeign == Init /\ [][NextGf]_vars

\* ==================================================== concurrent add_actor
\* Mutant of AddLock: the map is locked without excluding other holders.
AddLock_Shared(t, id) ==
    /\ apc[t] = "idle"
    /\ aNext + Cardinality({u \in Tasks : apc[u] \in {"check", "spawn"}}) <= MaxSpawn
    /\ aLock' = t
    /\ apc' = [apc EXCEPT ![t] = "check"]
    /\ aId' = [aId EXCEPT ![t] = id]
    /\ aRes' = [aRes EXCEPT ![t] = "none"]
    /\ UNCHANGED <<aReg, aSup, aNext, aOk>>

\* System::add_actor, `let mut actors = self.actors.write().await`.
AddLock(t, id) ==
    /\ apc[t] = "idle"
    /\ aLock = NoTask
    /\ aNext + Cardinality({u \in Tasks : apc[u] \in {"check", "spawn"}}) <= MaxSpawn
    /\ aLock' = t
    /\ apc' = [apc EXCEPT ![t] = "check"]
    /\ aId' = [aId EXCEPT ![t] = id]
    /\ aRes' = [aRes EXCEPT ![t] = "none"]
    /\ UNCHANGED <<aReg, aSup, aNext, aOk>>

\* System::add_actor, `if actors.contains_key(id) { return
\* Err(SystemError::ActorExists); }` : on return the guard is dropped.
AddCheck(t) ==
    /\ apc[t] = "check"
    /\ IF aReg[aId[t]] # NoSup
          THEN /\ aRes' = [aRes EXCEPT ![t] = "ActorExists"]
               /\ apc' = [apc EXCEPT ![t] = "idle"]
               /\ aLock' = NoTask
          ELSE /\ apc' = [apc EXCEPT ![t] = "spawn"]
               /\ UNCHANGED <<aRes, aLock>>
    /\ UNCHANGED <<aId, aReg, aSup, aNext, aOk>>

\* Mutant of AddInsert: the new supervisor's receiver also yields the last
\* signal sent before it subscribed.
AddInsert_SeesPast(t) ==
    /\ apc[t] = "spawn"
    /\ aSup' = [aSup EXCEPT ![aNext] =
                  [id |-> aId[t],
                   st |-> IF \E k \in Spawned : aSup[k].sent THEN "signalled" ELSE "run",
                   sent |-> FALSE]]
    /\ aReg' = [aReg EXCEPT ![aId[t]] = aNext]
    /\ aNext' = aNext + 1
    /\ aOk' = [aOk EXCEPT ![aId[t]] = aOk[aId[t]] + 1]
    /\ aRes' = [aRes EXCEPT ![t] = "Ok"]
    /\ apc' = [apc EXCEPT ![t] = "idle"]
    /\ aLock' = NoTask
    /\ UNCHANGED aId

\* System::add_actor, the rest: ActorSupervisor::new (which subscribes to
\* the shutdown broadcast: the receiver sees what is sent from now on),
\* tokio::spawn of its task, actors.insert, Ok.
AddInsert(t) ==
    /\ apc[t] = "spawn"
    /\ aSup' = [aSup EXCEPT ![aNext] = [id |-> aId[t], st |-> "run", sent |-> FALSE]]
    /\ aReg' = [aReg EXCEPT ![aId[t]] = aNext]
    /\ aNext' = aNext + 1
    /\ aOk' = [aOk EXCEPT ![aId[t]] = aOk[aId[t]] + 1]
    /\ aRes' = [aRes EXCEPT ![t] = "Ok"]
    /\ apc' = [apc EXCEPT ![t] = "idle"]
    /\ aLock' = NoTask
    /\ UNCHANGED aId

\* System::shutdown, `self.shutdown.send(())` : every supervisor subscribed
\* at this moment gets the signal, which its select! sees once the handler
\* in progress, if any, has returned (`sent` records that a broadcast was
\* made while the supervisor was subscribed).
AddShutdownSend(t) ==
    /\ apc[t] = "idle"
    /\ \E n \in Spawned : aSup[n].st \in {"run", "handling"}
    /\ aSup' = [n \in Spawned |->
          IF aSup[n].st \in {"run", "handling"}
              THEN [aSup[n] EXCEPT !.st = "signalled", !.sent = TRUE]
              ELSE aSup[n]]
    /\ apc' = [apc EXCEPT ![t] = "sd_clear"]
    /\ UNCHANGED <<aLock, aId, aRes, aReg, aNext, aOk>>

\* System::shutdown, `actors.clear()` under the write lock, then the guard
\* is dropped.
AddShutdownClear(t) ==
    /\ apc[t] = "sd_clear"
    /\ aLock = NoTask
    /\ aReg' = [i \in AddIds |-> NoSup]
    /\ aOk' = [i \in AddIds |-> 0]
    /\ apc' = [apc EXCEPT ![t] = "sd_drain"]
    /\ UNCHANGED <<aLock, aId, aRes, aSup, aNext>>

\* System::drain_shutdown : shutdown returns once every signal was received.
AddShutdownDrain(t) ==
    /\ apc[t] = "sd_drain"
    /\ \A n \in Spawned : aSup[n].st # "signalled"
    /\ apc' = [apc EXCEPT ![t] = "idle"]
    /\ UNCHANGED <<aLock, aId, aRes, aReg, aSup, aNext, aOk>>

\* The supervisor's select! receives the shutdown signal and breaks; its
\* task goes on to deinitialize and cleanup.
AddSupRecv(n) ==
    /\ aSup[n].st = "signalled"
    /\ aSup' = [aSup EXCEPT ![n].st = "ending"]
    /\ UNCHANGED <<aLock, apc, aId, aRes, aReg, aNext, aOk>>

\* The supervisor's select! receives a message and calls the handler.
AddSupHandle(n) ==
    /\ aSup[n].st = "run"
    /\ aSup' = [aSup EXCEPT ![n].st = "handling"]
    /\ UNCHANGED <<aLock, apc, aId, aRes, aReg, aNext, aOk>>

\* The handler returns and the loop selects again.
AddSupHandled(n) ==
    /\ aSup[n].st = "handling"
    /\ aSup' = [aSup EXCEPT ![n].st = "run"]
    /\ UNCHANGED <<aLock, apc, aId, aRes, aReg, aNext, aOk>>

\* The spawned task ends: `drop(supervisor)`. The map is not touched.
AddSupGone(n) ==
    /\ aSup[n].st = "ending"
    /\ aSup' = [aSup EXCEPT ![n].st = "gone"]
    /\ UNCHANGED <<aLock, apc, aId, aRes, aReg, aNext, aOk>>

NextAdd ==
    \/ \E t \in Tasks, i \in AddIds : AddLock(t, i) /\ UNCHANGED <<regVars, sysVars, forVars, mbVars, cdc, lkVars, hkVars, gfVars, rlVars, ufVars>>
    \/ \E t \in Tasks : AddCheck(t) /\ UNCHANGED <<regVars, sysVars, forVars, mbVars, cdc, lkVars, hkVars, gfVars, rlVars, ufVars>>
    \/ \E t \in Tasks : AddInsert(t) /\ UNCHANGED <<regVars, sysVars, forVars, mbVars, cdc, lkVars, hkVars, gfVars, rlVars, ufVars>>
    \/ \E t \in Tasks : AddShutdownSend(t) /\ UNCHANGED <<regVars, sysVars, forVars, mbVars, cdc, lkVars, hkVars, gfVars, rlVars, ufVars>>
    \/ \E t \in Tasks : AddShutdownClear(t) /\ UNCHANGED <<regVars, sysVars, forVars, mbVars, cdc, lkVars, hkVars, gfVars, rlVars, ufVars>>
    \/ \E t \in Tasks : AddShutdownDrain(t) /\ UNCHANGED <<regVars, sysVars, forVars, mbVars, cdc, lkVars, hkVars, gfVars, rlVars, ufVars>>
    \/ \E n \in Spawned : AddSupRecv(n) /\ UNCHANGED <<regVars, sysVars, forVars, mbVars, cdc, lkVars, hkVars, gfVars, rlVars, ufVars>>
    \/ \E n \in Spawned : AddSupHandle(n) /\ UNCHANGED <<regVars, sysVars, forVars, mbVars, cdc, lkVars, hkVars, gfVars, rlVars, ufVars>>
    \/ \E n \in Spawned : AddSupHandled(n) /\ UNCHANGED <<regVars, sysVars, forVars, mbVars, cdc, lkVars, hkVars, gfVars, rlVars, ufVars>>
    \/ \E n \in Spawned : AddSupGone(n) /\ UNCHANGED <<regVars, sysVars, forVars, mbVars, cdc, lkVars, hkVars, gfVars, rlVars, ufVars>>

SpecAdd == Init /\ [][NextAdd]_vars

\* ===================================================== hooks of one task
\* add_actor spawns the task, which starts run: initialize is called first.
HkSpawn(s) ==
    /\ hpc[s] = "none"
    /\ hpc' = [hpc EXCEPT ![s] = "call"]
    /\ hnow' = [hnow EXCEPT ![s] = "initialize"]
    /\ UNCHANGED <<running, hq, hSig>>

\* A message, a federated message or a notification is sent to the actor
\* while its channel is open.
HkPost(s, k) ==
    /\ hpc[s] \notin {"none", "dropped"}
    /\ hnow[s] # "cleanup"
    /\ hq[s]["message"] + hq[s]["federated_message"] + hq[s]["notified"] < MaxMsgs
    /\ hq' = [hq EXCEPT ![s][k] = hq[s][k] + 1]
    /\ UNCHANGED <<hpc, hnow, running, hSig>>

\* System::shutdown broadcasts to the supervisor's receiver.
HkSignal(s) ==
    /\ hpc[s] \notin {"none", "dropped"}
    /\ ~hSig[s]
    /\ hSig' = [hSig EXCEPT ![s] = TRUE]
    /\ UNCHANGED <<hpc, hnow, running, hq>>

\* `self.actor.<hook>(..)` : the hook starts executing.
HookCall(s) ==
    /\ hpc[s] = "call"
    /\ running' = [running EXCEPT ![s] = running[s] \cup {hnow[s]}]
    /\ hpc' = [hpc EXCEPT ![s] = "await"]
    /\ UNCHANGED <<hnow, hq, hSig>>

\* `.await` of the hook inside handle_policy! : the hook has returned and
\* the task goes on by the outcome: on, once more, or out.
HookReturn(s, out) ==
    /\ hpc[s] = "await"
    /\ running' = [running EXCEPT ![s] = running[s] \ {hnow[s]}]
    /\ LET h == hnow[s]
           next == CASE out = "again" -> h
                     [] h = "cleanup" -> NoHook
                     [] h = "deinitialize" -> "cleanup"
                     [] h = "initialize" /\ out = "fail" -> "cleanup"
                     [] h \in Kinds /\ out = "fail" -> "deinitialize"
                     [] OTHER -> NoHook
       IN /\ hnow' = [hnow EXCEPT ![s] = next]
          /\ hpc' = [hpc EXCEPT ![s] =
                CASE next # NoHook -> "call"
                  [] h = "cleanup" -> "dropped"
                  [] OTHER -> "select"]
          /\ hq' = [hq EXCEPT ![s] =
                IF next = "cleanup" \/ h = "cleanup" THEN [k \in Kinds |-> 0] ELSE hq[s]]
    /\ UNCHANGED hSig

\* Mutant of HkSelect: the handler of the selected input is started as a
\* task of its own and the loop selects again at once.
HkSelect_Detached(s, b) ==
    /\ hpc[s] = "select"
    /\ IF b = "shutdown"
          THEN /\ hSig[s]
               /\ hSig' = [hSig EXCEPT ![s] = FALSE]
               /\ hnow' = [hnow EXCEPT ![s] = "deinitialize"]
               /\ hpc' = [hpc EXCEPT ![s] = "call"]
               /\ UNCHANGED <<hq, running>>
          ELSE /\ hq[s][b] > 0
               /\ hq' = [hq EXCEPT ![s][b] = hq[s][b] - 1]
               /\ running' = [running EXCEPT ![s] = running[s] \cup {b}]
               /\ UNCHANGED <<hSig, hnow, hpc>>

\* One round of `tokio::select!` in the main loop: the branch that is ready
\* is taken, the other branches' futures are dropped, and the body of the
\* branch runs in the task itself: break to deinitialize, or the handler
\* of the input received.
HkSelect(s, b) ==
    /\ hpc[s] = "select"
    /\ IF b = "shutdown"
          THEN /\ hSig[s]
               /\ hSig' = [hSig EXCEPT ![s] = FALSE]
               /\ hnow' = [hnow EXCEPT ![s] = "deinitialize"]
               /\ UNCHANGED hq
          ELSE /\ hq[s][b] > 0
               /\ hq' = [hq EXCEPT ![s][b] = hq[s][b] - 1]
               /\ hnow' = [hnow EXCEPT ![s] = b]
               /\ UNCHANGED hSig
    /\ hpc' = [hpc EXCEPT ![s] = "call"]
    /\ UNCHANGED running

NextHk ==
    \/ \E s \in Sups : HkSpawn(s) /\ UNCHANGED <<regVars, sysVars, forVars, mbVars, cdc, lkVars, adVars, gfVars, rlVars, ufVars>>
    \/ \E s \in Sups, k \in Kinds : HkPost(s, k) /\ UNCHANGED <<regVars, sysVars, forVars, mbVars, cdc, lkVars, adVars, gfVars, rlVars, ufVars>>
    \/ \E s \in Sups : HkSignal(s) /\ UNCHANGED <<regVars, sysVars, forVars, mbVars, cdc, lkVars, adVars, gfVars, rlVars, ufVars>>
    \/ \E s \in Sups : HookCall(s) /\ UNCHANGED <<regVars, sysVars, forVars, mbVars, cdc, lkVars, adVars, gfVars, rlVars, ufVars>>
    \/ \E s \in Sups, out \in {"ok", "again", "fail"} : HookReturn(s, out) /\ UNCHANGED <<regVars, sysVars, forVars, mbVars, cdc, lkVars, adVars, gfVars, rlVars, ufVars>>
    \/ \E s \in Sups, b \in Kinds \cup {"shutdown"} : HkSelect(s, b) /\ UNCHANGED <<regVars, sysVars, forVars, mbVars, cdc, lkVars, adVars, gfVars, rlVars, ufVars>>

SpecHooks == Init /\ [][NextHk]_vars

\* One step of supervisor s's own task, apart from the completion of a
\* handler, which the actor's code alone decides.
SupStep(s) ==
    /\ \/ \E ok \in BOOLEAN : RunInitialize(s, ok)
       \/ SelectShutdown(s)
       \/ RecvMessage(s)
       \/ Deinitialize(s)
       \/ Cleanup(s)
    /\ UNCHANGED <<regVars, forVars, mbVars, cdc, lkVars, hkVars, adVars, gfVars, rlVars, ufVars>>

\* The steps of the task inside System::shutdown after the broadcast.
ShutdownStep ==
    /\ ShutdownClear \/ ShutdownReturn
    /\ UNCHANGED <<regVars, forVars, mbVars, cdc, lkVars, hkVars, adVars, gfVars, rlVars, ufVars>>

\* The runtime polls every task that can run; a handler may stay pending.
SpecSysFair ==
    /\ SpecSys
    /\ WF_vars(ShutdownStep)
    /\ \A s \in Sups : WF_vars(SupStep(s))

\* C16: a shutdown that has sent its signal returns.
C16_ShutdownReturns == (sdPc = "sent") ~> (sdPc = "idle")

C18_TypedLookupNeverMisroutes ==
    \A id \in KillIds, ty \in Types :
        /\ (get_local(id) # NoActor /\ TypeOf(get_local(id)) # ty)
              => get_local_as(ty, id) = NoActor
        /\ get_local_as(ty, id) # NoActor
              => (get_local_as(ty, id) = get_local(id)
                    /\ TypeOf(get_local_as(ty, id)) = ty)

\* Entries of both types are registered; each is found under its own type
\* and missed under the other.
C18_Witness ==
    \E i, j \in SlabIds :
        /\ get_local_as("A", i) # NoActor /\ get_local_as("B", i) = NoActor
        /\ get_local_as("B", j) # NoActor /\ get_local_as("A", j) = NoActor

\* C19: a foreign identifier resolves to exactly what the delegate answers,
\* whatever the local registry holds under the same id or name, and a local
\* identifier resolves from the local registry whatever the delegate is.
C19_ResolutionByVariant ==
    \A del \in Delegates, ty \in Types :
        /\ \A f \in ForeignIdentifiers :
              /\ get(del, ty, f) = del[f]
              /\ get(NoopDelegate, ty, f) = NoActor
        /\ \A id \in KillIds :
              get(del, ty, [kind |-> "Local", id |-> id]) = get_local_as(ty, id)
        /\ \A n \in Names :
              get(del, ty, [kind |-> "LocalNamed", name |-> n]) =
                  IF get_actor_id(n) = NoId
                      THEN NoActor
                      ELSE get_local_as(ty, get_actor_id(n))

\* A named local actor exists, its local identifiers resolve to it, and the
\* foreign identifiers with the same id and name resolve to nothing under
\* the no-op delegate.
C19_Witness ==
    \E n \in Names, ty \in Types :
        /\ get_actor_id(n) # NoId
        /\ get(NoopDelegate, ty, [kind |-> "LocalNamed", name |-> n]) # NoActor
        /\ get(NoopDelegate, ty, [kind |-> "Local", id |-> get_actor_id(n)]) # NoActor
        /\ get(NoopDelegate, ty, [kind |-> "ForeignNamed", name |-> n]) = NoActor
        /\ get(NoopDelegate, ty, [kind |-> "Foreign", id |-> get_actor_id(n)]) = NoActor

\* C20: a foreign send that reports success has put its message on the
\* foreign channel, once; a send whose message was discarded because nobody
\* listens reports an error.
C20_NoSilentDiscard ==
    \A m \in FMsgs :
        fmsg[m].res = "ok" => (fmsg[m].sends = 1 /\ fmsg[m].fate # "discarded")

\* C21: whenever the supervisor is done with a message and goes back to its
\* loop, the sender of that message has a response; a failure of the handler
\* does not turn into NoResponse while the supervisor keeps running.
C21_HandledIsAnswered ==
    [][\A s \in Sups :
          (spc[s] = "handling" /\ spc'[s] = "loop") => mResp'[cur[s]] = "ok"]_vars

\* C22: a handler that completes for a message whose caller gave up counts
\* as one invocation, leaves the response undelivered and nothing else
\* changed, and the supervisor goes back to its loop for the next message.
C22_CancelDoesNotAffectActor ==
    [][\A s \in Sups :
          (spc[s] = "handling" /\ mResp[cur[s]] = "cancelled" /\ HandleMessage(s, TRUE))
              => /\ spc'[s] = "loop"
                 /\ mInv'[cur[s]] = mInv[cur[s]] + 1
                 /\ mResp'[cur[s]] = "cancelled"
                 /\ mailbox' = mailbox
                 /\ exitBy' = exitBy]_vars

\* The handler ran once for a message whose caller gave up, and the
\* supervisor then handled and answered the next message.
C22_Witness ==
    \E m1, m2 \in Msgs :
        /\ m1 < m2 /\ m2 < nextMsg
        /\ mTarget[m1] = mTarget[m2]
        /\ mResp[m1] = "cancelled" /\ mInv[m1] = 1
        /\ mResp[m2] = "ok" /\ mInv[m2] = 1

\* C23: the mailbox never holds more than its capacity, and every envelope
\* sent is in exactly one place: received by the supervisor, queued, or
\* still with its waiting sender; none is lost because the mailbox was full.
C23_BackPressure ==
    /\ Len(bq) <= MailboxCap
    /\ \A i, j \in 1..Len(bq) : i # j => bq[i] # bq[j]
    /\ \A c \in Tasks : bwait[c] # NoEnv => \A i \in 1..Len(bq) : bq[i] # bwait[c]
    /\ \A c, e \in Tasks : (c # e /\ bwait[c] # NoEnv) => bwait[c] # bwait[e]
    /\ bNext - 1 = bTaken + Len(bq) + Cardinality({c \in Tasks : bwait[c] # NoEnv})

\* The mailbox is full again, holding an envelope whose sender had to wait,
\* while another sender is waiting.
C23_Witness ==
    /\ Len(bq) = MailboxCap
    /\ \E i \in 1..Len(bq) : bq[i] \in bWaited
    /\ \E c \in Tasks : bwait[c] # NoEnv

\* C24: parsing the canonical text of a well-formed identifier gives that
\* identifier back, and a text is parsed to an identifier only when it is a
\* text of the grammar; any other text gives the parse error.
C24_CodecRoundTripStrict ==
    /\ cdc.op = "print" => cdc.back = cdc.ident
    /\ cdc.op = "parse" =>
          /\ cdc.ident = ParseError <=> ~InGrammar(cdc.text)
          /\ cdc.ident # ParseError => parse(print(cdc.ident)) = cdc.ident

\* A foreign identifier by id has been printed and parsed back.
C24_Witness ==
    /\ cdc.op = "print"
    /\ cdc.ident.kind = "Foreign"
    /\ cdc.ident.id = 7
    /\ cdc.text = <<"a", ":", "#", "7">>
    /\ cdc.back = cdc.ident

\* C25: no task holds the registry lock for writing while user code of an
\* actor is run or awaited by its operation.
C25_NoLockAcrossUserCode ==
    \A t \in Tasks : hook[t] # "none" => lockW # t

\* C26 as stated: every invocation of initialize is the first one of its
\* actor.
C26_InitializeExactlyOnce ==
    [][\A s \in Sups :
          (spc[s] = "spawned" /\ (spc'[s] # "spawned" \/ attempts'[s] # attempts[s]))
              => attempts[s] = 0]_vars

\* C26: initialize is invoked once and re-invoked at most MaxRetry times by
\* a retry policy; no handler of the actor is invoked while initialize is
\* still to run or to be re-run, and the loop that invokes handlers is
\* entered only when initialize has returned for the last time.
C26_InitializeBeforeHandlers ==
    [][\A s \in Sups :
          /\ (spc'[s] = "handling" /\ spc[s] # "handling") => spc[s] = "loop"
          /\ (spc'[s] = "loop" /\ spc[s] # "loop") => spc[s] \in {"spawned", "handling"}
          /\ spc[s] = "spawned" =>
                /\ \A m \in Msgs : mTarget[m] = s => (mInv[m] = 0 /\ mInv'[m] = 0)
                /\ attempts[s] <= MaxRetry
                /\ spc'[s] = "spawned" =>
                      attempts'[s] \in {attempts[s], attempts[s] + 1}]_vars

\* Initialize has failed MaxRetry times and is about to be run once more
\* while a message is already waiting in the mailbox, unhandled.
C26_Witness ==
    \E s \in Sups :
        /\ spc[s] = "spawned"
        /\ attempts[s] = MaxRetry
        /\ mailbox[s] # <<>>
        /\ \A m \in Msgs : mInv[m] = 0

\* C27: a supervisor whose loop ends after initialize succeeded runs
\* deinitialize before its run ends (the end of run is entered from
\* deinitialize, or from an initialize that failed), and no handler of the
\* actor is invoked once deinitialize has started.
C27_DeinitializeOnEveryExit ==
    [][\A s \in Sups :
          /\ (spc'[s] = "cleanup" /\ spc[s] # "cleanup") => spc[s] \in {"deinit", "spawned"}
          /\ spc[s] \in {"deinit", "cleanup"} =>
                \A m \in Msgs : mTarget[m] = s => mInv'[m] = mInv[m]]_vars

\* C28: a supervisor is dropped only by its cleanup, which every end of run
\* leads to (shutdown, failed initialize, a policy that fails, a response
\* that cannot be sent); cleanup closes the channel, so nothing is queued
\* or awaited at the actor afterwards; an initialize that failed goes to
\* cleanup without deinitialize, which is entered only from the main loop.
C28_CleanupAfterRun ==
    [][\A s \in Sups :
          /\ (spc'[s] = "dropped" /\ spc[s] # "dropped") =>
                /\ spc[s] = "cleanup"
                /\ exitBy[s] \in {"shutdown", "initialize", "handler", "respond"}
                /\ mailbox'[s] = <<>>
                /\ \A m \in Msgs : mTarget[m] = s => mResp'[m] # "pending"
          /\ (spc'[s] = "deinit" /\ spc[s] # "deinit") => spc[s] \in {"loop", "handling"}
          /\ (exitBy'[s] = "initialize" /\ exitBy[s] # "initialize") =>
                (spc[s] = "spawned" /\ spc'[s] = "cleanup")
          /\ exitBy[s] = "initialize" => spc'[s] \in {"cleanup", "dropped"}]_vars

\* A supervisor whose initialize failed under a failing policy has been
\* cleaned up and dropped.
C28_Witness ==
    \E s \in Sups :
        /\ spc[s] = "dropped"
        /\ exitBy[s] = "initialize"

\* C29: at any time at most one hook of an actor is executing, and it is
\* the one its supervisor's task is awaiting.
C29_OneHookAtATime ==
    \A s \in Sups :
        /\ Cardinality(running[s]) <= 1
        /\ running[s] # {} => (hpc[s] = "await" /\ running[s] = {hnow[s]})

\* A notification handler is executing while a message and the shutdown
\* broadcast are both ready for the select.
C29_Witness ==
    \E s \in Sups :
        /\ running[s] = {"notified"}
        /\ hq[s]["message"] > 0
        /\ hSig[s]

C31_DefaultPolicy ==
    [][\A s \in Sups :
          /\ (spc[s] = "handling" /\ HandleMessage(s, FALSE)) =>
                /\ spc'[s] = "loop"
                /\ mailbox'[s] = mailbox[s]
                /\ exitBy'[s] = exitBy[s]
          /\ (spc[s] = "loop" /\ spc'[s] = "handling") => cur'[s] = Head(mailbox[s])
          /\ (spc[s] = "spawned" /\ RunInitialize(s, FALSE)) => spc'[s] = "cleanup"
          /\ (exitBy'[s] = "closed" /\ exitBy[s] # "closed") => spc'[s] = "deinit"
          /\ spc[s] \in {"deinit", "cleanup", "dropped"} =>
                /\ spc'[s] \in {"deinit", "cleanup", "dropped"}
                /\ \A m \in Msgs : mTarget[m] = s => mInv'[m] = mInv[m]]_vars

\* A handler failed for one message, the supervisor went on and answered a
\* later message of the same actor, and is still in its loop.
C31_Witness ==
    \E m1, m2 \in Msgs :
        /\ m1 < m2
        /\ m2 < nextMsg
        /\ mTarget[m1] = mTarget[m2]
        /\ mInv[m1] = 1
        /\ mResp[m1] = "noresponse"
        /\ mResp[m2] = "ok"
        /\ spc[mTarget[m1]] = "loop"

\* C32: a hook failure that its policy turns into `fail` takes the
\* supervisor out of its loop (initialize: out of run); from then on it
\* has no message in hand, invokes no handler and never returns to the
\* loop; it is eventually dropped, and no request to a dropped supervisor
\* is still waiting, the one that failed and the ones queued included.
C32_FailEndsSupervisor ==
    /\ [][\A s \in Sups :
            exitBy[s] \in {"handler", "initialize"} =>
                \A m \in Msgs : mTarget[m] = s => mInv'[m] = mInv[m]]_vars
    /\ [](\A s \in Sups :
            /\ exitBy[s] \in {"handler", "initialize"} =>
                  /\ spc[s] \in {"deinit", "cleanup", "dropped"}
                  /\ cur[s] = NoMsg
                  /\ \A m \in Msgs : (mTarget[m] = s /\ mInv[m] > 0) => mResp[m] # "pending"
            /\ spc[s] = "dropped" =>
                  \A m \in Msgs : mTarget[m] = s => mResp[m] # "pending")
    /\ \A s \in Sups : (exitBy[s] \in {"handler", "initialize"}) ~> (spc[s] = "dropped")

\* A handler failed under a policy that fails; the supervisor is past its
\* loop while another request, sent before or after, is still queued.
C32_Witness ==
    \E s \in Sups :
        /\ spc[s] = "deinit"
        /\ exitBy[s] = "handler"
        /\ mailbox[s] # <<>>
        /\ \E m \in Msgs : mTarget[m] = s /\ mInv[m] >= 1 /\ mResp[m] = "noresponse"

\* C33: no state that other tasks can read or act on has an actor
\* registered by add_named present in the id map while its name is not yet
\* bound to its id.
C33_AtomicAcrossMaps ==
    \A t \in Tasks :
        pc[t] = "name_lock" =>
            ~(/\ SlabGet(loc[t].id) = loc[t].actor
              /\ actor_ids[loc[t].name] # loc[t].id
              /\ \E u \in Tasks : u # t /\ pc[u] = "idle")

\* C34: kill(id) of an actor that is stored changes only the entry of id:
\* after its first statement get_local(id) is None, every other id answers
\* as before and the name map is as it was, a name bound to id included;
\* its shrink changes neither.
C34_KillFrame ==
    [][\A t \in Tasks :
          /\ (pc[t] = "idle" /\ pc'[t] = "kill_shrink") =>
                \A id \in SlabIds :
                    (get_local(id) # NoActor /\ KillRemove(t, id)) =>
                        /\ actor_ids' = actor_ids
                        /\ IdMap'[id] = NoActor
                        /\ \A j \in SlabIds \ {id} : IdMap'[j] = IdMap[j]
          /\ (pc[t] = "kill_shrink" /\ pc'[t] = "idle") =>
                (IdMap' = IdMap /\ actor_ids' = actor_ids)]_vars

\* An actor has been killed, its name still points at its id, and an actor
\* added after it is still answered for by get_local.
C34_Witness ==
    \E t \in Tasks, n \in Names, j \in SlabIds :
        /\ pc[t] = "kill_shrink"
        /\ actor_ids[n] \in killedIds
        /\ get_local(actor_ids[n]) = NoActor
        /\ j > actor_ids[n]
        /\ get_local(j) # NoActor

\* C35: at most one get_foreign call returns Some and every call that
\* returned after it returned None; whenever the mutex is free the receiver
\* is gone from the system exactly if a call has returned it, and every
\* answer of can_send_foreign is true only after that and false only
\* before it.
C35_ReceiverHandedOutOnce ==
    /\ [](/\ gSome <= 1
          /\ Cardinality({t \in Tasks : gRes[t] = "Some"}) <= gSome
          /\ gLock = NoTask => (gRx = "None" <=> gSome = 1))
    /\ [][\A t \in Tasks :
            /\ (gpc[t] = "replace" /\ gpc'[t] = "idle") =>
                  (gRes'[t] = "Some" <=> gSome = 0)
            /\ gCan'[t] # gCan[t] =>
                  (gCan'[t] = "true" <=> gSome = 1)]_vars

\* One call returned the receiver, a later call on a clone returned None,
\* and can_send_foreign has answered true.
C35_Witness ==
    \E t, u \in Tasks :
        /\ gRes[t] = "Some"
        /\ gRes[u] = "None"
        /\ gCan[u] = "true"
        /\ gSome = 1

C37_MistypedNeverHandled ==
    /\ [](\A k \in 1..Len(uHandled) : uKind[uHandled[k]] # "mistyped")
    /\ [][/\ (UfConvert /\ uKind[ucur] = "mistyped"
                 /\ uPol = DefaultPolicy.foreign) =>
                (upc' = "loop" /\ ucur' = 0 /\ uq' = uq /\ uHandled' = uHandled)
          /\ (upc = "loop" /\ upc' = "convert") => ucur' = Head(uq)]_vars

\* Under the default policy the first message was mistyped and was
\* dropped, and the second one has been handled.
C37_Witness ==
    /\ uPol = DefaultPolicy.foreign
    /\ uKind[1] = "mistyped"
    /\ uKind[2] = "foreign"
    /\ uHandled = <<2>>
    /\ upc = "loop"

\* C38: when the listener drops the foreign responder (the reply is lost)
\* or answers with a value that is not an M::Response, the send ends with
\* ForeignRespondFailed or ForeignResponseUnexpected, the caller's response
\* channel gets no value and is closed, so the caller stops waiting; a
\* caller holds a value only after a send that returned Ok.
C38_LostReplyEndsInError ==
    \A m \in FMsgs :
        /\ fmsg[m].reply = "dropped" =>
              /\ fmsg[m].st = "done"
              /\ fmsg[m].res = "err"
              /\ fmsg[m].err = "ForeignRespondFailed"
              /\ fmsg[m].caller = "closed"
        /\ fmsg[m].reply = "other_type" =>
              /\ fmsg[m].st = "done"
              /\ fmsg[m].res = "err"
              /\ fmsg[m].err = "ForeignResponseUnexpected"
              /\ fmsg[m].caller = "closed"
        /\ fmsg[m].caller = "value" => (fmsg[m].res = "ok" /\ fmsg[m].reply = "response")
        /\ (fmsg[m].st = "done" /\ fmsg[m].resp) => fmsg[m].caller \in {"value", "closed"}

\* One round-trip ended with a lost reply, one with a reply of another
\* type and one with a relayed response.
C38_Witness ==
    \E m1, m2, m3 \in FMsgs :
        /\ fmsg[m1].reply = "dropped" /\ fmsg[m1].caller = "closed"
        /\ fmsg[m2].reply = "other_type" /\ fmsg[m2].caller = "closed"
        /\ fmsg[m3].caller = "value"

\* C39: shutdown empties the map and leaves the system usable: an
\* add_actor that finds its id absent (as every id is once the map was
\* cleared) returns Ok with a supervisor in its loop; a supervisor is only
\* ever stopped by a signal sent while it was subscribed and in its loop,
\* so no supervisor added after a shutdown is stopped by that shutdown; and
\* a handler is called by a supervisor that is in its loop.
C39_ShutdownLeavesSystemUsable ==
    [][/\ \A n \in Spawned :
            /\ aSup'[n].st \in {"signalled", "ending", "gone"} => aSup'[n].sent
            /\ (aSup'[n].sent /\ ~aSup[n].sent) => aSup[n].st \in {"run", "handling"}
            /\ (aSup'[n].st = "handling" /\ aSup[n].st # "handling") =>
                  aSup[n].st = "run"
       /\ \A t \in Tasks :
            /\ (apc[t] = "sd_clear" /\ apc'[t] = "sd_drain") =>
                  \A i \in AddIds : aReg'[i] = NoSup
            /\ (apc[t] = "check" /\ apc'[t] # "check" /\ aReg[aId[t]] = NoSup) =>
                  apc'[t] = "spawn"
            /\ (apc[t] = "spawn" /\ apc'[t] = "idle") =>
                  /\ aRes'[t] = "Ok"
                  /\ aReg'[aId[t]] = aNext
                  /\ aSup'[aNext].st = "run"
                  /\ ~aSup'[aNext].sent]_vars

\* An actor was added and stopped by a shutdown that has returned; the same
\* id was added again, and the new supervisor is registered and is
\* handling a message.
C39_Witness ==
    \E t \in Tasks :
        /\ \A u \in Tasks : apc[u] = "idle"
        /\ aRes[t] = "Ok"
        /\ aSup[1].st = "gone"
        /\ aSup[2].id = aSup[1].id
        /\ aSup[2].st = "handling"
        /\ aReg[aSup[2].id] = 2

\* C40: once every add_actor and every shutdown has returned, a supervisor
\* that is still in its loop is the registered entry of its id: none was
\* cleared from the map without getting a shutdown signal.
C40_NoOrphan ==
    (\A t \in Tasks : apc[t] = "idle") =>
        \A n \in Spawned :
            aSup[n].st \in {"run", "handling"} => aReg[aSup[n].id] = n
====
